---- MODULE Spec2Model ----
(***************************************************************************)
(* State-machine model of the MQTT connection core of aituber-kit:        *)
(*   - MqttSubscriber        (features/mqtt/subscribers/MqttSubscriber.ts) *)
(*   - MqttBrokerIntegration (features/mqtt/MqttBrokerIntegration.ts)      *)
(* The MQTT.js client is the environment: each object returned by         *)
(* mqtt.connect is a "transport" whose events (connect, error, close,     *)
(* offline) and callbacks (suback, unsuback, end) arrive as separate      *)
(* steps.  Every asynchronous method is cut at its awaits.                *)
(***************************************************************************)
EXTENDS Integers, Sequences, FiniteSets, Bags, TLC

\* ------------------------------------------------------------------ bounds
MaxTransports == 2      \* transports one MqttSubscriber opens in a run
MaxBackoffTransports == 3 \* the same, in the run that has unlimited retries and
                        \* no subscription (it reaches the delay ceiling)
MaxAttemptsLimit == 2   \* the nonzero maxReconnectAttempts that is explored
MaxBrokerClients == 2   \* clients MqttBrokerIntegration is loading or has created
MaxUpdates == 1         \* updateSubscriptions calls in a run that makes any
MaxUpdateTransports == 1 \* transports the subscriber opens in such a run
MaxDefects == 2         \* fields of an inbound message that differ from a
                        \* well-formed message
MaxDispatches == 2      \* payloads handed to the speech handler in a run

\* ------------------------------------------------------- program constants
DefaultReconnectDelay == 1000
DefaultMaxReconnectDelay == 30000

VARIABLES
    client,               \* MqttSubscriber.client: 0 = null, else transport id
    connectionStatus,     \* MqttSubscriber.connectionStatus
    reconnectAttempts,    \* MqttSubscriber.reconnectAttempts
    maxReconnectAttempts, \* constructor parameter
    subscriptions,        \* constructor parameter: sequence of subscriptions
    transports,           \* every client object mqtt.connect has returned
    timers,               \* bag of the delays of the pending reconnect timers
    dpc,                  \* position of the disconnect() call in flight
    dIdx,                 \* subscription index disconnect() is waiting on
    explicitDisc,         \* history: disconnect() completed, no connect() call since
    freshlyConnected,     \* history: connected, and no retry scheduled since
    emitted,              \* connectionStatusChanged notifications of the last step
    dSubs,                \* the array the unsubscribe loop of disconnect() iterates
    updatesLeft,          \* updateSubscriptions calls the run may still make
    uLoops,               \* subscribeToTopics loops updateSubscriptions started
    updateRun             \* the owner of the subscriber calls updateSubscriptions

subVars == <<client, connectionStatus, reconnectAttempts, maxReconnectAttempts,
             subscriptions, transports, timers, dpc, dIdx, explicitDisc,
             freshlyConnected, emitted, dSubs, updatesLeft, uLoops,
             updateRun>>

updVars == <<updatesLeft, uLoops, updateRun>>

VARIABLES
    brokerClient,            \* MqttBrokerIntegration.client: 0 = null, else id
    connectionCheckInterval, \* MqttBrokerIntegration.connectionCheckInterval # null
    liveIntervals,           \* setInterval timers that have not been cleared
    mqttConnectionStatus,    \* settingsStore.mqttConnectionStatus
    mqttEnabled,             \* settingsStore.mqttEnabled
    loading,                 \* connect() calls that await loadMqttClient()
    brokerTransports,        \* every client object connect() has created
    teardownDone             \* history: disconnect()/cleanup() returned, and no
                             \* connect() has been called since

brokerVars == <<brokerClient, connectionCheckInterval, liveIntervals,
                mqttConnectionStatus, mqttEnabled, loading,
                brokerTransports, teardownDone>>

VARIABLES
    config,       \* the MQTT keys of settingsStore (host, port, clientId, ...)
    diagnostic,   \* what the last diagnoseMqttConfig call returned
    validation,   \* what the last MqttBrokerIntegration.validateConfig call returned
    connectAttempt \* the last connection attempt: who made it, whether it
                  \* validated, and whether it opened a transport

VARIABLES
    mqttIntegration, \* MqttIntegration: its subscriber (0 = null, else an index
                     \* of subscribers), isInitialized, config.enabled, and the
                     \* updateConfig or cleanup call that awaits stop()
    subscribers      \* every MqttSubscriber initialize() has created

intVars == <<mqttIntegration, subscribers>>

cfgVars == <<config, diagnostic, validation, connectAttempt, intVars>>

VARIABLES
    message,      \* the inbound MQTT message of the run
    received,     \* what the receive path did with it
    sendMode,     \* mqttBrokerStore.sendMode
    handled,      \* the payloads handed to handleSpeechPayload, in call order
    results,      \* what each handleSpeechPayload call resolved with
    calls,        \* SpeakQueue.stopAll and speakCharacter invocations, in order
    urgentTimers, \* pending setTimeout(50) callbacks of speakWithHighPriority
    aiWaits,      \* handleSpeechPayload calls awaiting generateAiResponse
    generated     \* per payload: what generateAiResponse was asked and resolved with

msgVars == <<message, received, sendMode, handled, results, calls, urgentTimers,
             aiWaits, generated>>

VARIABLES
    ttsText,      \* the argument of a sanitizeTextForTTS call
    ttsSanitized, \* what the call returned
    delivered,    \* what became of the earlier messages of the run, in order
    generatedIds, \* what the generateAituberClientId calls returned, in order
    uuids,        \* what uuidv4() returned to them
    now,          \* Date.now(), as an index of Timestamps
    pureCalls     \* the calls of the other side-effect-free functions: name,
                  \* argument and result, in order

pureVars == <<ttsText, ttsSanitized, delivered, generatedIds, uuids, now, pureCalls>>

dataVars == <<cfgVars, msgVars, pureVars>>

vars == <<subVars, brokerVars, dataVars>>

\* ---------------------------------------------------------- configuration
Sub(t, q, a) == [topic |-> t, qos |-> q, active |-> a]

SubscriptionConfigs ==
    { <<>>,
      << Sub("aituber/speech", 2, TRUE), Sub("aituber/debug", 1, FALSE),
         Sub("aituber/alert", 0, TRUE) >> }

\* ------------------------------------------------------------ pure helpers
RECURSIVE Pow2(_)
Pow2(n) == IF n <= 0 THEN 1 ELSE 2 * Pow2(n - 1)

Min(a, b) == IF a <= b THEN a ELSE b

\* variant of ReconnectDelay: the exponent taken one too high
ReconnectDelayLate(attempt) ==
    Min(DefaultReconnectDelay * Pow2(attempt), DefaultMaxReconnectDelay)

\* scheduleReconnect: delay for the attempt number reached after the increment
ReconnectDelay(attempt) ==
    Min(DefaultReconnectDelay * Pow2(attempt - 1), DefaultMaxReconnectDelay)

\* variant of shouldRetryConnection: the limit itself still retries
shouldRetryConnectionInclusive ==
    \/ maxReconnectAttempts = 0
    \/ reconnectAttempts <= maxReconnectAttempts

shouldRetryConnection ==
    \/ maxReconnectAttempts = 0
    \/ reconnectAttempts < maxReconnectAttempts

\* variant of NextActive: the active flag is not read
NextActiveAny(subs, i) == IF i <= Len(subs) THEN i ELSE 0

\* first active subscription at index >= i, 0 when there is none
NextActive(subs, i) ==
    LET S == { j \in i..Len(subs) : subs[j].active }
    IN  IF S = {} THEN 0 ELSE CHOOSE j \in S : \A k \in S : j <= k

ActiveRequests(subs) ==
    { <<subs[j].topic, subs[j].qos>> : j \in { k \in 1..Len(subs) : subs[k].active } }

ActiveTopics(subs) ==
    { subs[j].topic : j \in { k \in 1..Len(subs) : subs[k].active } }

NewTransport ==
    [ state   |-> "opening",      \* opening, failed (error while opening),
                                  \* open, closed
      ending  |-> FALSE,          \* client.end() has been called
      offl    |-> FALSE,          \* the offline event has been emitted
      cpc     |-> "awaitConnect", \* position of the connect() call that made it:
                                  \* awaitConnect, awaitSuback, resolved, rejected
      subIdx  |-> 0,              \* subscription that connect() call waits on
      waitOn  |-> 0,              \* transport the pending subscribe was sent on
      loopSubs |-> <<>>,          \* the array its subscribeToTopics loop iterates
      issued  |-> {},             \* subscribe requests sent on this transport
      unsubs  |-> {} ]            \* unsubscribe requests sent on this transport

TIds == 1..Len(transports)

TransportCap ==
    IF updateRun THEN MaxUpdateTransports
    ELSE IF maxReconnectAttempts = 0 /\ subscriptions = <<>>
    THEN MaxBackoffTransports ELSE MaxTransports

\* A closed client object that this.client no longer refers to takes no further
\* request and emits no further event: the record of the requests sent on it is
\* dropped.
Forget(tr, cl) ==
    [ t \in DOMAIN tr |->
        IF tr[t].state = "closed" /\ t # cl
        THEN [tr[t] EXCEPT !.issued = {}, !.unsubs = {}, !.ending = FALSE,
                           !.offl = TRUE,
                           !.cpc = IF @ \in {"resolved", "rejected"}
                                   THEN "settled" ELSE @]
        ELSE tr[t] ]

\* ---------------------------------------------------------------- strings
\* A string is a sequence of words; a word stands for n consecutive characters
\* and is either whitespace (w = " ") or a piece of text without whitespace.
Word(w, n) == [w |-> w, n |-> n]

Text(w, n) == <<Word(w, n)>>

undefined == <<Word("undefined", 0)>>

RECURSIVE length(_)
length(s) == IF s = <<>> THEN 0 ELSE s[1].n + length(Tail(s))

RECURSIVE trimStart(_)
trimStart(s) == IF s # <<>> /\ s[1].w = " " THEN trimStart(Tail(s)) ELSE s

RECURSIVE trimEnd(_)
trimEnd(s) ==
    IF s # <<>> /\ s[Len(s)].w = " " THEN trimEnd(SubSeq(s, 1, Len(s) - 1)) ELSE s

trim(s) == trimEnd(trimStart(s))

\* !s for a value that is a string or undefined
Falsy(s) == s = undefined \/ s = <<>>

startsWith(s, w) == s # <<>> /\ s[1].w = w

If(cond, item) == IF cond THEN <<item>> ELSE <<>>

\* the settings the data-path specifications do not exercise
DefaultSettings ==
    [host |-> Text("localhost", 9), port |-> 1883, clientId |-> <<>>,
     protocol |-> "websocket", websocketPath |-> <<Word("/", 1), Word("mqtt", 4)>>,
     secure |-> FALSE, username |-> undefined, password |-> undefined]

NoDiagnostic == [called |-> FALSE, valid |-> FALSE, issues |-> <<>>, warnings |-> <<>>]

NoValidation ==
    [called |-> FALSE, urlOk |-> FALSE, valid |-> FALSE, errors |-> <<>>,
     warnings |-> <<>>]

NoAttempt ==
    [path |-> "none", validated |-> FALSE, issues |-> <<>>, errors |-> <<>>,
     initialized |-> FALSE, opened |-> FALSE]

\* no call awaits stop()
NoPending == [op |-> "none", enabled |-> FALSE, reconnect |-> FALSE]

\* MqttIntegration after its constructor
IntegrationIdle ==
    /\ mqttIntegration = [subscriber |-> 0, isInitialized |-> FALSE,
                          enabled |-> FALSE, pending |-> NoPending]
    /\ subscribers = <<>>

ConfigIdle ==
    /\ config = DefaultSettings
    /\ diagnostic = NoDiagnostic
    /\ validation = NoValidation
    /\ connectAttempt = NoAttempt
    /\ IntegrationIdle

\* a value a JSON document or a payload field holds; v is a string (a sequence
\* of words) or a number
undefinedValue == [t |-> "undefined", v |-> <<>>]

JString(str) == [t |-> "string", v |-> str]

JNumber(n) == [t |-> "number", v |-> n]

JObject == [t |-> "object", v |-> <<>>]

NoFields ==
    [id |-> undefinedValue, text |-> undefinedValue, type |-> undefinedValue,
     priority |-> undefinedValue, timestamp |-> undefinedValue,
     emotion |-> undefinedValue, speaker |-> undefinedValue,
     metadata |-> undefinedValue]

NoMessage == [kind |-> "none", raw |-> <<>>, fields |-> NoFields]

NotReceived == [path |-> "none", outcome |-> "none", error |-> "", payload |-> NoFields]

SpeechIdle ==
    /\ handled = <<>>
    /\ results = <<>>
    /\ calls = <<>>
    /\ urgentTimers = <<>>
    /\ aiWaits = <<>>
    /\ generated = <<>>

MessageIdle ==
    /\ message = NoMessage
    /\ received = NotReceived
    /\ sendMode = "direct_send"
    /\ SpeechIdle

\* no sanitizeTextForTTS call on its own
NotSanitized == [done |-> FALSE, text |-> <<>>]

PureIdle ==
    /\ ttsText = <<>>
    /\ ttsSanitized = NotSanitized
    /\ delivered = <<>>
    /\ generatedIds = <<>>
    /\ uuids = <<>>
    /\ now = 1
    /\ pureCalls = <<>>

DataIdle == ConfigIdle /\ MessageIdle /\ PureIdle

\* ------------------------------------------------------------------- Init
SubInit ==
    /\ client = 0
    /\ connectionStatus = "disconnected"
    /\ reconnectAttempts = 0
    /\ maxReconnectAttempts \in {0, MaxAttemptsLimit}
    /\ subscriptions \in SubscriptionConfigs
    /\ transports = <<>>
    /\ timers = EmptyBag
    /\ dpc = "idle"
    /\ dIdx = 0
    /\ explicitDisc = FALSE
    /\ freshlyConnected = FALSE
    /\ emitted = <<>>
    /\ dSubs = <<>>
    /\ updateRun \in BOOLEAN
    /\ updatesLeft = IF updateRun THEN MaxUpdates ELSE 0
    /\ uLoops = <<>>

BrokerInit ==
    /\ brokerClient = 0
    /\ connectionCheckInterval = FALSE
    /\ liveIntervals = 0
    /\ mqttConnectionStatus = "disconnected"
    /\ mqttEnabled \in BOOLEAN
    /\ loading = 0
    /\ brokerTransports = <<>>
    /\ teardownDone = FALSE

\* MqttSubscriber with an idle MqttBrokerIntegration
Init == SubInit /\ BrokerInit /\ DataIdle /\ mqttEnabled = FALSE /\ ~updateRun

\* MqttSubscriber whose owner also calls updateSubscriptions
InitUpdate ==
    /\ SubInit
    /\ BrokerInit
    /\ DataIdle
    /\ mqttEnabled = FALSE
    /\ updateRun
    /\ maxReconnectAttempts = MaxAttemptsLimit

\* MqttBrokerIntegration with an idle MqttSubscriber
InitBroker ==
    /\ BrokerInit
    /\ SubInit
    /\ DataIdle
    /\ maxReconnectAttempts = MaxAttemptsLimit
    /\ subscriptions = <<>>
    /\ ~updateRun

\* ---------------------------------------------------- MqttSubscriber.connect
\* variant of setConnectionStatus: the notification is emitted unconditionally
setConnectionStatusAlways(status) ==
    /\ connectionStatus' = status
    /\ emitted' = <<status>>

\* setConnectionStatus: the field and the notification change together, and
\* only when the status differs
setConnectionStatus(status) ==
    IF connectionStatus # status
    THEN /\ connectionStatus' = status
         /\ emitted' = <<status>>
    ELSE /\ UNCHANGED connectionStatus
         /\ emitted' = <<>>

\* a step that does not call setConnectionStatus
StatusUntouched ==
    /\ UNCHANGED connectionStatus
    /\ emitted' = <<>>

\* connect() up to its first await: the guard, the status, mqtt.connect.
ConnectBody ==
    IF client # 0
    THEN UNCHANGED <<client, transports>> /\ StatusUntouched
    ELSE /\ setConnectionStatus("connecting")
         /\ transports' = Append(transports, NewTransport)
         /\ client' = Len(transports) + 1

ConnectCall ==
    /\ UNCHANGED <<dataVars, brokerVars, updVars, dSubs>>
    /\ client = 0 => Len(transports) < TransportCap
    /\ ConnectBody
    /\ explicitDisc' = FALSE
    /\ UNCHANGED <<reconnectAttempts, maxReconnectAttempts, subscriptions,
                   timers, dpc, dIdx, freshlyConnected>>

\* the callback of the timer scheduleReconnect armed: it calls connect()
FireReconnectTimer ==
    \E d \in BagToSet(timers) :
        /\ UNCHANGED <<dataVars, brokerVars, updVars, dSubs>>
        /\ client = 0 => Len(transports) < TransportCap
        /\ timers' = timers (-) SetToBag({d})
        /\ ConnectBody
        /\ UNCHANGED <<reconnectAttempts, maxReconnectAttempts, subscriptions,
                       dpc, dIdx, explicitDisc, freshlyConnected>>

\* subscribeToTopics from index i, run by the connect() call of transport t,
\* while this.client is cl: the transports after the loop reaches its next
\* await, or its end (cpc = "resolved")
RunSubscribe(tr, t, i, cl) ==
    LET subs == tr[t].loopSubs
        j == IF cl = 0 THEN 0 ELSE NextActive(subs, i)
    IN  IF j = 0
        THEN [tr EXCEPT ![t].cpc = "resolved", ![t].subIdx = 0, ![t].waitOn = 0,
                        ![t].loopSubs = <<>>]
        ELSE LET tr1 == [tr EXCEPT ![t].cpc = "awaitSuback",
                                   ![t].subIdx = j, ![t].waitOn = cl]
             IN  [tr1 EXCEPT ![cl].issued =
                      @ \cup {<<subs[j].topic, subs[j].qos>>}]

\* scheduleReconnect
scheduleReconnect ==
    /\ reconnectAttempts' = reconnectAttempts + 1
    /\ timers' = timers (+) SetToBag({ReconnectDelay(reconnectAttempts + 1)})
    /\ freshlyConnected' = FALSE

\* the catch block of connect() after the status is set to error
ConnectCatch ==
    IF shouldRetryConnection
    THEN scheduleReconnect
    ELSE UNCHANGED <<reconnectAttempts, timers, freshlyConnected>>

\* 'connect' event of transport t: the handler of setupEventHandlers, then the
\* once('connect') of connect(), whose continuation starts subscribeToTopics
ConnectEvent(t) ==
    /\ UNCHANGED <<dataVars, brokerVars, updVars, dSubs>>
    /\ transports[t].state = "opening"
    /\ ~transports[t].ending
    /\ setConnectionStatus("connected")
    /\ LET tr0 == [transports EXCEPT ![t].state = "open"]
       IN  IF transports[t].cpc = "awaitConnect"
           THEN LET tr1 == RunSubscribe([tr0 EXCEPT ![t].loopSubs = subscriptions],
                                        t, 1, client)
                IN  /\ transports' = Forget(tr1, client)
                    /\ reconnectAttempts' =
                           IF tr1[t].cpc = "resolved" THEN 0 ELSE reconnectAttempts
           ELSE /\ transports' = tr0
                /\ UNCHANGED reconnectAttempts
    /\ freshlyConnected' = TRUE
    /\ UNCHANGED <<client, maxReconnectAttempts, subscriptions, timers,
                   dpc, dIdx, explicitDisc>>

\* callback of the subscribe request the connect() call of t waits on
SubscribeCallback(t) ==
    /\ UNCHANGED <<dataVars, brokerVars, updVars, dSubs>>
    /\ transports[t].cpc = "awaitSuback"
    /\ transports[transports[t].waitOn].state # "opening"
    /\ LET tr1 == RunSubscribe(transports, t, transports[t].subIdx + 1, client)
       IN  /\ transports' = Forget(tr1, client)
           /\ reconnectAttempts' =
                  IF tr1[t].cpc = "resolved" THEN 0 ELSE reconnectAttempts
    /\ StatusUntouched
    /\ UNCHANGED <<client, maxReconnectAttempts, subscriptions,
                   timers, dpc, dIdx, explicitDisc, freshlyConnected>>

\* 'error' event of transport t: the handler of setupEventHandlers, then the
\* once('error') of connect(), which rejects into the catch block
ErrorEvent(t) ==
    /\ UNCHANGED <<dataVars, brokerVars, updVars, dSubs>>
    /\ transports[t].state \in {"opening", "open"}
    /\ setConnectionStatus("error")
    /\ LET st == IF transports[t].state = "opening" THEN "failed" ELSE "open"
       IN  IF transports[t].cpc = "awaitConnect"
           THEN /\ transports' = [transports EXCEPT ![t].cpc = "rejected",
                                                    ![t].state = st]
                /\ ConnectCatch
           ELSE /\ transports' = [transports EXCEPT ![t].state = st]
                /\ UNCHANGED <<reconnectAttempts, timers, freshlyConnected>>
    /\ UNCHANGED <<client, maxReconnectAttempts, subscriptions,
                   dpc, dIdx, explicitDisc>>

\* the 15 s timer of connect(): by then MQTT.js has given up (connectTimeout
\* 10 s) or the client has been ended; it rejects into the catch block
ConnectTimeout(t) ==
    /\ UNCHANGED <<dataVars, brokerVars, updVars, dSubs>>
    /\ transports[t].cpc = "awaitConnect"
    /\ transports[t].state = "closed" \/ transports[t].ending
    /\ setConnectionStatus("error")
    /\ transports' = Forget([transports EXCEPT ![t].cpc = "rejected"], client)
    /\ ConnectCatch
    /\ UNCHANGED <<client, maxReconnectAttempts, subscriptions,
                   dpc, dIdx, explicitDisc>>

\* 'close' event of transport t
CloseEvent(t) ==
    /\ UNCHANGED <<dataVars, brokerVars, updVars, dSubs>>
    /\ transports[t].state \in {"opening", "failed", "open"}
    /\ transports' = Forget([transports EXCEPT ![t].state = "closed"], client)
    /\ setConnectionStatus("disconnected")
    /\ IF shouldRetryConnection
       THEN scheduleReconnect
       ELSE UNCHANGED <<reconnectAttempts, timers, freshlyConnected>>
    /\ UNCHANGED <<client, maxReconnectAttempts, subscriptions,
                   dpc, dIdx, explicitDisc>>

\* variant of OfflineEvent: the handler retries as the close handler does
OfflineEventRetrying(t) ==
    /\ UNCHANGED <<dataVars, brokerVars, updVars, dSubs>>
    /\ transports[t].state = "closed"
    /\ ~transports[t].offl
    /\ ~transports[t].ending
    /\ transports' = [transports EXCEPT ![t].offl = TRUE]
    /\ setConnectionStatus("disconnected")
    /\ IF shouldRetryConnection
       THEN scheduleReconnect
       ELSE UNCHANGED <<reconnectAttempts, timers, freshlyConnected>>
    /\ UNCHANGED <<client, maxReconnectAttempts, subscriptions,
                   dpc, dIdx, explicitDisc>>

\* 'offline' event of transport t: MQTT.js emits it once, after the close of a
\* client that end() was not called on
OfflineEvent(t) ==
    /\ UNCHANGED <<dataVars, brokerVars, updVars, dSubs>>
    /\ transports[t].state = "closed"
    /\ ~transports[t].offl
    /\ ~transports[t].ending
    /\ transports' = [transports EXCEPT ![t].offl = TRUE]
    /\ setConnectionStatus("disconnected")
    /\ UNCHANGED <<client, reconnectAttempts, maxReconnectAttempts, subscriptions,
                   timers, dpc, dIdx, explicitDisc, freshlyConnected>>

\* ------------------------------------------------- MqttSubscriber.disconnect
\* the unsubscribe loop from index i up to its next await; after the last
\* subscription client.end() is called
RunUnsubscribe(subs, i) ==
    LET j == NextActive(subs, i)
    IN  IF j = 0
        THEN /\ transports' = [transports EXCEPT ![client].ending = TRUE]
             /\ dpc' = "awaitEnd"
             /\ dIdx' = 0
             /\ dSubs' = <<>>
        ELSE /\ transports' = [transports EXCEPT ![client].unsubs =
                                   @ \cup {subs[j].topic}]
             /\ dpc' = "awaitUnsub"
             /\ dIdx' = j
             /\ dSubs' = subs

DisconnectCall ==
    /\ UNCHANGED <<dataVars, brokerVars, updVars>>
    /\ dpc = "idle"
    /\ IF client = 0
       THEN UNCHANGED <<transports, dpc, dIdx, dSubs>>
       ELSE RunUnsubscribe(subscriptions, 1)
    /\ StatusUntouched
    /\ UNCHANGED <<client, reconnectAttempts,
                   maxReconnectAttempts, subscriptions, timers, explicitDisc,
                   freshlyConnected>>

UnsubscribeCallback ==
    /\ UNCHANGED <<dataVars, brokerVars, updVars>>
    /\ dpc = "awaitUnsub"
    /\ RunUnsubscribe(dSubs, dIdx + 1)
    /\ StatusUntouched
    /\ UNCHANGED <<client, reconnectAttempts,
                   maxReconnectAttempts, subscriptions, timers, explicitDisc,
                   freshlyConnected>>

\* variant of EndCallback: the client is cleared and the status left as it is
EndCallbackSilent ==
    /\ UNCHANGED <<dataVars, brokerVars, updVars, dSubs>>
    /\ dpc = "awaitEnd"
    /\ transports[client].state \in {"closed", "opening", "failed"}
    /\ client' = 0
    /\ StatusUntouched
    /\ dpc' = "idle"
    /\ explicitDisc' = TRUE
    /\ transports' = Forget(transports, 0)
    /\ UNCHANGED <<reconnectAttempts, maxReconnectAttempts, subscriptions,
                   timers, dIdx, freshlyConnected>>

\* callback of client.end(): a connected client calls it after its stream has
\* closed, a client that is not connected calls it at once
EndCallback ==
    /\ UNCHANGED <<dataVars, brokerVars, updVars, dSubs>>
    /\ dpc = "awaitEnd"
    /\ transports[client].state \in {"closed", "opening", "failed"}
    /\ client' = 0
    /\ setConnectionStatus("disconnected")
    /\ dpc' = "idle"
    /\ explicitDisc' = TRUE
    /\ transports' = Forget(transports, 0)
    /\ UNCHANGED <<reconnectAttempts, maxReconnectAttempts, subscriptions,
                   timers, dIdx, freshlyConnected>>

\* ------------------------------------------------------------------- Next
Next ==
    \/ ConnectCall
    \/ FireReconnectTimer
    \/ \E t \in TIds : ConnectEvent(t)
    \/ \E t \in TIds : SubscribeCallback(t)
    \/ \E t \in TIds : ErrorEvent(t)
    \/ \E t \in TIds : ConnectTimeout(t)
    \/ \E t \in TIds : CloseEvent(t)
    \/ \E t \in TIds : OfflineEvent(t)
    \/ DisconnectCall
    \/ UnsubscribeCallback
    \/ EndCallback

Spec == Init /\ [][Next]_vars

\* ---------------------------------------- MqttSubscriber.updateSubscriptions
RemoveAt(seq, k) == SubSeq(seq, 1, k - 1) \o SubSeq(seq, k + 1, Len(seq))

\* subscribeToTopics called by updateSubscriptions, from index i of the array
\* subs, up to its next await or its end; loops are the other loops in flight
UpdateLoopStep(loops, subs, i) ==
    LET j == IF client = 0 THEN 0 ELSE NextActive(subs, i)
    IN  IF j = 0
        THEN /\ uLoops' = loops
             /\ UNCHANGED transports
        ELSE /\ uLoops' = Append(loops, [subs |-> subs, idx |-> j, waitOn |-> client])
             /\ transports' = [transports EXCEPT ![client].issued =
                                   @ \cup {<<subs[j].topic, subs[j].qos>>}]

\* updateSubscriptions(subs)
UpdateSubscriptions(subs) ==
    /\ UNCHANGED <<dataVars, brokerVars, dSubs>>
    /\ updatesLeft > 0
    /\ updatesLeft' = updatesLeft - 1
    /\ subscriptions' = subs
    /\ StatusUntouched
    /\ IF connectionStatus = "connected"
       THEN UpdateLoopStep(uLoops, subs, 1)
       ELSE UNCHANGED <<transports, uLoops>>
    /\ UNCHANGED <<client, reconnectAttempts, maxReconnectAttempts, timers,
                   dpc, dIdx, explicitDisc, freshlyConnected, updateRun>>

\* callback of the subscribe request loop k of updateSubscriptions waits on
UpdateSubscribeCallback(k) ==
    /\ UNCHANGED <<dataVars, brokerVars, dSubs>>
    /\ transports[uLoops[k].waitOn].state # "opening"
    /\ UpdateLoopStep(RemoveAt(uLoops, k), uLoops[k].subs, uLoops[k].idx + 1)
    /\ StatusUntouched
    /\ UNCHANGED <<client, reconnectAttempts, maxReconnectAttempts, subscriptions,
                   timers, dpc, dIdx, explicitDisc, freshlyConnected, updatesLeft,
                   updateRun>>

NextUpdate ==
    \/ Next
    \/ \E subs \in SubscriptionConfigs : UpdateSubscriptions(subs)
    \/ \E k \in 1..Len(uLoops) : UpdateSubscribeCallback(k)

SpecUpdate == InitUpdate /\ [][NextUpdate]_vars

\* ================================================= MqttBrokerIntegration
\* A client object connect() has created.  The continuation of its connect
\* handler after the SUBACK (the message listener, resolve(true)) is read by
\* no action of this model and is left out.
NewBrokerTransport ==
    [ state       |-> "opening", \* opening, open, down (closed, MQTT.js will
                                 \* reconnect), reopening, ended
      ending      |-> FALSE,     \* client.end() has been called
      endPending  |-> FALSE,     \* the callback given to client.end() is due
      timeoutPending |-> TRUE,   \* the 10 s timer of its connect() call is armed
      subIssued   |-> FALSE,     \* a subscribe request was sent on it
      unsubIssued |-> FALSE ]    \* an unsubscribe request was sent on it

BTIds == 1..Len(brokerTransports)

\* this.client && this.client.connected
BrokerConnected(tr, cl) == cl # 0 /\ tr[cl].state = "open"

\* this.client && this.client.reconnecting
BrokerReconnecting(tr, cl) == cl # 0 /\ tr[cl].state \in {"down", "reopening"}

BrokerLive(t) ==
    /\ brokerTransports[t].state # "ended"
    /\ ~brokerTransports[t].ending

\* an ended client object that nothing waits on any more is of no further use
BrokerForget(tr) ==
    [ t \in DOMAIN tr |->
        IF tr[t].state = "ended" /\ ~tr[t].endPending
        THEN [tr[t] EXCEPT !.subIssued = FALSE]
        ELSE tr[t] ]

\* client.end() on client cl: a client that is down has no stream left to close
EndClient(tr, cl, withCallback) ==
    [tr EXCEPT ![cl].ending = TRUE,
               ![cl].endPending = withCallback \/ @,
               ![cl].state = IF @ = "down" THEN "ended" ELSE @]

startConnectionMonitoring ==
    IF connectionCheckInterval
    THEN UNCHANGED <<connectionCheckInterval, liveIntervals>>
    ELSE /\ connectionCheckInterval' = TRUE
         /\ liveIntervals' = liveIntervals + 1

stopConnectionMonitoring ==
    IF connectionCheckInterval
    THEN /\ connectionCheckInterval' = FALSE
         /\ liveIntervals' = liveIntervals - 1
    ELSE UNCHANGED <<connectionCheckInterval, liveIntervals>>

\* connect() up to its await of loadMqttClient(); valid is the outcome of
\* validateConfig on the settings of the moment
ConnectStart(valid) ==
    /\ BrokerConnected(brokerTransports, brokerClient)
          \/ loading + Len(brokerTransports) < MaxBrokerClients
    /\ IF BrokerConnected(brokerTransports, brokerClient)
       THEN UNCHANGED <<mqttConnectionStatus, loading>>
       ELSE IF ~valid
            THEN /\ mqttConnectionStatus' = "disconnected"
                 /\ UNCHANGED loading
            ELSE /\ mqttConnectionStatus' = "connecting"
                 /\ loading' = loading + 1
    /\ teardownDone' = FALSE
    /\ UNCHANGED <<brokerClient, connectionCheckInterval, liveIntervals,
                   brokerTransports>>

\* variant of DisconnectStart: the status is published before the client ended
DisconnectStartEager ==
    /\ stopConnectionMonitoring
    /\ mqttConnectionStatus' = "disconnected"
    /\ IF brokerClient # 0
       THEN /\ brokerTransports' = EndClient(brokerTransports, brokerClient, TRUE)
            /\ UNCHANGED teardownDone
       ELSE /\ teardownDone' = TRUE
            /\ UNCHANGED brokerTransports
    /\ UNCHANGED <<brokerClient, loading>>

\* disconnect() up to its await of the client.end() callback
DisconnectStart ==
    /\ stopConnectionMonitoring
    /\ IF brokerClient # 0
       THEN /\ brokerTransports' = EndClient(brokerTransports, brokerClient, TRUE)
            /\ UNCHANGED <<mqttConnectionStatus, teardownDone>>
       ELSE /\ mqttConnectionStatus' = "disconnected"
            /\ teardownDone' = TRUE
            /\ UNCHANGED brokerTransports
    /\ UNCHANGED <<brokerClient, loading>>

\* MqttSettings.handleMqttConnection: the effect that runs when mqttEnabled flips
ToggleConnection ==
    \E en \in BOOLEAN, valid \in BOOLEAN :
        /\ en # mqttEnabled
        /\ mqttEnabled' = en
        /\ IF en THEN ConnectStart(valid) ELSE DisconnectStart
        /\ UNCHANGED <<dataVars, subVars>>

\* App.initializeMqtt: mqttBrokerIntegration.initialize(); MqttSettings mounting
\* while MQTT is on has the same effect through toggleConnection(true)
Initialize ==
    \E valid \in BOOLEAN :
        /\ IF mqttEnabled
           THEN ConnectStart(valid)
           ELSE UNCHANGED <<brokerClient, connectionCheckInterval, liveIntervals,
                            mqttConnectionStatus, loading, brokerTransports,
                            teardownDone>>
        /\ UNCHANGED mqttEnabled
        /\ UNCHANGED <<dataVars, subVars>>

\* disconnect() called with mqttEnabled left as it is: toggleConnection(false)
\* run by MqttSettings when it mounts while MQTT is off, or the public method
BrokerDisconnectCall ==
    /\ DisconnectStart
    /\ UNCHANGED mqttEnabled
    /\ UNCHANGED <<dataVars, subVars>>

\* loadMqttClient() has settled in one connect() call: mqtt.connect, the
\* handlers and the 10 s timer, or the early return
LoadDone ==
    \E ok \in BOOLEAN :
        /\ loading > 0
        /\ loading' = loading - 1
        /\ IF ok
           THEN /\ brokerTransports' = Append(brokerTransports, NewBrokerTransport)
                /\ brokerClient' = Len(brokerTransports) + 1
                /\ UNCHANGED mqttConnectionStatus
           ELSE /\ mqttConnectionStatus' = "disconnected"
                /\ UNCHANGED <<brokerClient, brokerTransports>>
        /\ UNCHANGED <<connectionCheckInterval, liveIntervals, mqttEnabled,
                       teardownDone>>
        /\ UNCHANGED <<dataVars, subVars>>

\* 'connect' event of client t: status, monitoring, and the subscribe request
\* of subscribeToDefaultTopics, which goes to this.client if that is connected
BrokerConnectEvent(t) ==
    /\ brokerTransports[t].state \in {"opening", "reopening"}
    /\ ~brokerTransports[t].ending
    /\ mqttConnectionStatus' = "connected"
    /\ startConnectionMonitoring
    /\ LET tr0 == [brokerTransports EXCEPT ![t].state = "open"]
       IN  brokerTransports' =
              IF BrokerConnected(tr0, brokerClient)
              THEN [tr0 EXCEPT ![brokerClient].subIssued = TRUE]
              ELSE tr0
    /\ UNCHANGED <<brokerClient, mqttEnabled, loading, teardownDone>>
    /\ UNCHANGED <<dataVars, subVars>>

\* 'error' event of client t
BrokerErrorEvent(t) ==
    /\ brokerTransports[t].state \in {"opening", "reopening", "open"}
    /\ mqttConnectionStatus' = "disconnected"
    /\ UNCHANGED <<brokerClient, connectionCheckInterval, liveIntervals,
                   mqttEnabled, loading, brokerTransports, teardownDone>>
    /\ UNCHANGED <<dataVars, subVars>>

\* 'close' event of client t: ended clients stay closed, the others reconnect
BrokerCloseEvent(t) ==
    /\ brokerTransports[t].state \in {"opening", "reopening", "open"}
    /\ brokerTransports' =
           BrokerForget([brokerTransports EXCEPT ![t].state =
                            IF brokerTransports[t].ending THEN "ended" ELSE "down"])
    /\ mqttConnectionStatus' = "disconnected"
    /\ UNCHANGED <<brokerClient, connectionCheckInterval, liveIntervals,
                   mqttEnabled, loading, teardownDone>>
    /\ UNCHANGED <<dataVars, subVars>>

\* 'offline' event of client t
BrokerOfflineEvent(t) ==
    /\ brokerTransports[t].state = "down"
    /\ mqttConnectionStatus' = "disconnected"
    /\ UNCHANGED <<brokerClient, connectionCheckInterval, liveIntervals,
                   mqttEnabled, loading, brokerTransports, teardownDone>>
    /\ UNCHANGED <<dataVars, subVars>>

\* 'reconnect' event of client t (reconnectPeriod keeps its MQTT.js default)
BrokerReconnectEvent(t) ==
    /\ brokerTransports[t].state = "down"
    /\ brokerTransports' = [brokerTransports EXCEPT ![t].state = "reopening"]
    /\ mqttConnectionStatus' = "connecting"
    /\ UNCHANGED <<brokerClient, connectionCheckInterval, liveIntervals,
                   mqttEnabled, loading, teardownDone>>
    /\ UNCHANGED <<dataVars, subVars>>

\* the 10 s timer of the connect() call that created client t; never cleared
BrokerConnectTimeout(t) ==
    /\ brokerTransports[t].timeoutPending
    /\ brokerTransports' = [brokerTransports EXCEPT ![t].timeoutPending = FALSE]
    /\ IF BrokerConnected(brokerTransports, brokerClient)
       THEN UNCHANGED mqttConnectionStatus
       ELSE mqttConnectionStatus' = "disconnected"
    /\ UNCHANGED <<brokerClient, connectionCheckInterval, liveIntervals,
                   mqttEnabled, loading, teardownDone>>
    /\ UNCHANGED <<dataVars, subVars>>

\* callback of client.end() in disconnect(): a connected client calls it after
\* its stream has closed, a client that is not connected calls it at once
BrokerEndCallback(t) ==
    /\ brokerTransports[t].endPending
    /\ brokerTransports[t].state # "open"
    /\ brokerTransports' =
           BrokerForget([brokerTransports EXCEPT ![t].endPending = FALSE])
    /\ brokerClient' = 0
    /\ mqttConnectionStatus' = "disconnected"
    /\ teardownDone' = TRUE
    /\ UNCHANGED <<connectionCheckInterval, liveIntervals, mqttEnabled, loading>>
    /\ UNCHANGED <<dataVars, subVars>>

\* cleanup(), also reached through shutdown()
cleanup ==
    /\ stopConnectionMonitoring
    /\ IF brokerClient # 0
       THEN brokerTransports' =
                BrokerForget(EndClient(brokerTransports, brokerClient, FALSE))
       ELSE UNCHANGED brokerTransports
    /\ brokerClient' = 0
    /\ teardownDone' = TRUE
    /\ UNCHANGED <<mqttConnectionStatus, mqttEnabled, loading>>
    /\ UNCHANGED <<dataVars, subVars>>

\* one tick of the interval startConnectionMonitoring armed
checkConnectionStatus ==
    /\ liveIntervals > 0
    /\ mqttConnectionStatus' =
           IF ~mqttEnabled THEN "disconnected"
           ELSE IF BrokerConnected(brokerTransports, brokerClient) THEN "connected"
           ELSE IF BrokerReconnecting(brokerTransports, brokerClient)
                THEN "connecting"
           ELSE "disconnected"
    /\ UNCHANGED <<brokerClient, connectionCheckInterval, liveIntervals,
                   mqttEnabled, loading, brokerTransports, teardownDone>>
    /\ UNCHANGED <<dataVars, subVars>>

NextBroker ==
    \/ ToggleConnection
    \/ Initialize
    \/ BrokerDisconnectCall
    \/ LoadDone
    \/ \E t \in BTIds : BrokerConnectEvent(t)
    \/ \E t \in BTIds : BrokerErrorEvent(t)
    \/ \E t \in BTIds : BrokerCloseEvent(t)
    \/ \E t \in BTIds : BrokerOfflineEvent(t)
    \/ \E t \in BTIds : BrokerReconnectEvent(t)
    \/ \E t \in BTIds : BrokerConnectTimeout(t)
    \/ \E t \in BTIds : BrokerEndCallback(t)
    \/ cleanup
    \/ checkConnectionStatus

SpecBroker == InitBroker /\ [][NextBroker]_vars

\* ------------------------------------------------ configuration validation
\* the settings the validation specification draws its configuration from
Hosts == {<<>>, Text(" ", 2), Text("localhost", 9), Text("broker.example", 14)}

Ports == {0, 1, 1883, 8883, 65535, 65536}

\* values uuidv4() returns, in the order it returns them: 36 characters of the
\* version-4 pattern each
UuidSequence ==
    <<"uuid-v4-a", "uuid-v4-b", "uuid-v4-c", "uuid-v4-d", "uuid-v4-e", "uuid-v4-f",
      "uuid-v4-g">>

Uuids == {UuidSequence[i] : i \in 1..Len(UuidSequence)}

\* `${Date.now()}` at consecutive milliseconds of the present: 13 digits
Timestamps == <<"1767225600000", "1767225600001", "1767225600002", "1767225600003">>

\* variant of generateAituberClientId: the uuid is the same in every call
generateAituberClientIdFixedUuid(uuid, timestamp) ==
    <<Word("aituber-", 8), Word("uuid-v4-a", 36), Word("-", 1), Word(timestamp, 13)>>

\* generateAituberClientId: `aituber-${uuid}-${timestamp}`
generateAituberClientId(uuid, timestamp) ==
    <<Word("aituber-", 8), Word(uuid, 36), Word("-", 1), Word(timestamp, 13)>>

\* the id buildConnectionConfig generates
AituberId == generateAituberClientId("uuid-v4-a", Timestamps[1])

ClientIds == {<<>>, Text(" ", 1), Text("legacy", 6), Text("x", 65536), AituberId}

WebsocketPaths ==
    {undefined, <<>>, Text(" ", 1), <<Word("/", 1), Word("mqtt", 4)>>,
     Text("mqtt", 4)}

Credentials == {undefined, Text("secret", 6)}

Settings ==
    { c \in [host : Hosts, port : Ports, clientId : ClientIds,
             protocol : {"mqtt", "websocket"}, websocketPath : WebsocketPaths,
             secure : BOOLEAN, username : Credentials, password : Credentials] :
        c.protocol = "mqtt"
            => c.websocketPath \in {undefined, <<Word("/", 1), Word("mqtt", 4)>>} }

\* a broker URL: the text before "://" (the whole text when there is no
\* "://"), and the text after it
Url(scheme, sep, rest) == [scheme |-> scheme, sep |-> sep, rest |-> rest]

BrokerUrls ==
    {Url("invalid-url", FALSE, <<>>), Url("http", TRUE, Text("192.168.0.131", 13)),
     Url("mqtt", TRUE, <<>>), Url("ws", TRUE, Text("192.168.0.131:1883", 18)),
     Url("mqtts", TRUE, Text("broker.example", 14))}

\* variant of diagnoseMqttConfig: a warning makes the configuration invalid too
diagnoseMqttConfigStrict(issues, warnings) == Len(issues) = 0 /\ Len(warnings) = 0

\* diagnoseMqttConfig: the value of `valid` it returns
diagnosticValid(issues, warnings) == Len(issues) = 0

\* the four conditions diagnoseMqttConfig tests for its issues
hostMissing(c) == Falsy(c.host) \/ trim(c.host) = <<>>

portInvalid(c) == c.port <= 0 \/ c.port > 65535

clientIdMissing(c) == Falsy(c.clientId) \/ trim(c.clientId) = <<>>

websocketPathMissing(c) ==
    c.protocol = "websocket"
        /\ (Falsy(c.websocketPath) \/ trim(c.websocketPath) = <<>>)

diagnoseMqttConfig(c) ==
    LET issues ==
            If(hostMissing(c), "host is not set")
            \o If(portInvalid(c), "port is invalid (1-65535)")
            \o If(clientIdMissing(c), "client id is not set")
            \o If(~clientIdMissing(c) /\ length(c.clientId) > 65535,
                  "client id is too long")
            \o If(websocketPathMissing(c), "websocket path is not set")
        warnings ==
            If(~hostMissing(c)
                   /\ c.host \in {Text("localhost", 9), Text("127.0.0.1", 9)},
               "localhost")
            \o If(~portInvalid(c) /\ c.port \in {1883, 8883, 8080, 8084},
                  "standard port")
            \o If(c.protocol = "websocket" /\ ~websocketPathMissing(c)
                      /\ ~startsWith(c.websocketPath, "/"),
                  "websocket path should start with /")
            \o If(c.secure /\ c.port = 1883, "secure on port 1883")
            \o If(~c.secure /\ c.port = 8883, "port 8883 without secure")
            \o If(~Falsy(c.username) /\ Falsy(c.password), "username without password")
            \o If(Falsy(c.username) /\ ~Falsy(c.password), "password without username")
    IN  [called |-> TRUE, valid |-> diagnosticValid(issues, warnings),
         issues |-> issues, warnings |-> warnings]

\* urlRegex.test(url) for /^(mqtt|mqtts|ws|wss):\/\/.+/
urlRegexTest(url) ==
    url.sep /\ url.scheme \in {"mqtt", "mqtts", "ws", "wss"} /\ length(url.rest) >= 1

\* MqttBrokerIntegration.validateConfig: the diagnosis of the stored settings,
\* with the URL issue pushed onto the issues after `valid` was computed
validateConfig(c, url) ==
    LET d == diagnoseMqttConfig(c)
    IN  [called |-> TRUE, urlOk |-> urlRegexTest(url), valid |-> d.valid,
         errors |-> d.issues \o If(~urlRegexTest(url), "broker URL format is invalid"),
         warnings |-> d.warnings]

\* mqttBrokerStore.getBrokerUrl
getBrokerUrl(c) ==
    Url(IF c.protocol = "websocket"
        THEN IF c.secure THEN "wss" ELSE "ws"
        ELSE IF c.secure THEN "mqtts" ELSE "mqtt",
        TRUE,
        c.host \o <<Word(":", 1), Word("port", 1)>>
        \o IF c.protocol = "websocket" /\ ~Falsy(c.websocketPath)
           THEN c.websocketPath ELSE <<>>)

\* isAituberClientId: aituber-{uuid}-{timestamp}, or that followed by -{legacy}
isAituberClientId(id) ==
    /\ ~Falsy(id)
    /\ Len(id) >= 4
    /\ id[1] = Word("aituber-", 8)
    /\ id[2].w \in Uuids /\ id[2].n = 36
    /\ id[3] = Word("-", 1)
    /\ (\E k \in 1..Len(Timestamps) : id[4].w = Timestamps[k]) /\ id[4].n = 13
    /\ Len(id) > 4 =>
           /\ id[5] = Word("-", 1)
           /\ length(SubSeq(id, 6, Len(id))) >= 1
           \* /-.+$/: the dot matches no line terminator
           /\ \A k \in 6..Len(id) : id[k].w # "line terminator"

\* convertLegacyClientId, with what uuidv4() and Date.now() return to it
convertLegacyClientId(legacyClientId, uuid, timestamp) ==
    IF isAituberClientId(legacyClientId) THEN legacyClientId
    ELSE IF Falsy(legacyClientId) THEN generateAituberClientId(uuid, timestamp)
    ELSE <<Word("aituber-", 8), Word(uuid, 36), Word("-", 1), Word(timestamp, 13),
           Word("-", 1)>> \o legacyClientId

\* buildConnectionConfig: the client id it uses and writes back to the store
builtClientId(id) ==
    IF isAituberClientId(id) THEN id
    ELSE IF Falsy(id) THEN AituberId
    ELSE AituberId \o <<Word("-", 1)>> \o id

\* MqttConfigLoader.loadConfig: the connection part
loadConnectionConfig(c) ==
    [c EXCEPT !.websocketPath = IF c.protocol = "websocket" THEN @ ELSE undefined]

\* MqttConfigLoader.validateConfig for a configuration loadConfig built: the
\* subscriptions are the three default topics with QoS 2, the reconnect
\* settings are the defaults
loaderValidateConfig(enabled, c) ==
    IF ~enabled THEN <<>>
    ELSE If(Falsy(c.host), "MQTT host is required")
         \o If(portInvalid(c), "MQTT port must be between 1 and 65535")
         \o If(Falsy(c.clientId), "MQTT client ID is required")
         \o If(c.protocol \notin {"mqtt", "websocket"}, "MQTT protocol")
         \o If(c.protocol = "websocket" /\ Falsy(c.websocketPath),
               "WebSocket path is required")

ControlUnchanged == UNCHANGED <<subVars, brokerVars, msgVars, pureVars, intVars>>

ControlUnchangedButIntegration == UNCHANGED <<subVars, brokerVars, msgVars, pureVars>>

\* one call of diagnoseMqttConfig on the stored settings
Diagnose ==
    /\ ~diagnostic.called /\ ~validation.called /\ connectAttempt.path = "none"
    /\ diagnostic' = diagnoseMqttConfig(config)
    /\ UNCHANGED <<config, validation, connectAttempt>>
    /\ ControlUnchanged

\* one call of MqttBrokerIntegration.validateConfig
ValidateConfig(url) ==
    /\ ~diagnostic.called /\ ~validation.called /\ connectAttempt.path = "none"
    /\ validation' = validateConfig(config, url)
    /\ UNCHANGED <<config, diagnostic, connectAttempt>>
    /\ ControlUnchanged

\* MqttBrokerIntegration.testConnection up to createTestConnection
TestConnection(url) ==
    /\ ~diagnostic.called /\ ~validation.called /\ connectAttempt.path = "none"
    /\ validation' = validateConfig(config, url)
    /\ connectAttempt' =
           [path |-> "testConnection", validated |-> TRUE,
            issues |-> diagnoseMqttConfig(config).issues,
            errors |-> validation'.errors,
            initialized |-> FALSE, opened |-> validation'.valid]
    /\ UNCHANGED <<config, diagnostic>>
    /\ ControlUnchanged

\* MqttBrokerIntegration.connect up to mqtt.connect: buildConnectionConfig
\* stores the client id it built, validateConfig reads the store after that
ConnectValidated ==
    /\ ~diagnostic.called /\ ~validation.called /\ connectAttempt.path = "none"
    /\ config' = [config EXCEPT !.clientId = builtClientId(@)]
    /\ validation' = validateConfig(config', getBrokerUrl(config'))
    /\ connectAttempt' =
           [path |-> "connect", validated |-> TRUE,
            issues |-> diagnoseMqttConfig(config').issues,
            errors |-> validation'.errors,
            initialized |-> FALSE, opened |-> validation'.valid]
    /\ UNCHANGED diagnostic
    /\ ControlUnchanged

\* initializeMqttIntegration: loadConfig, MqttConfigLoader.validateConfig (its
\* errors are logged), MqttIntegration.initialize, which connects the new
\* subscriber when reconnect is enabled
InitializeMqttIntegration(reconnectEnabled) ==
    /\ ~diagnostic.called /\ ~validation.called /\ connectAttempt.path = "none"
    /\ LET c == loadConnectionConfig(config)
       IN  connectAttempt' =
               [path |-> "initializeMqttIntegration", validated |-> TRUE,
                issues |-> IF mqttEnabled THEN diagnoseMqttConfig(c).issues ELSE <<>>,
                errors |-> loaderValidateConfig(mqttEnabled, c),
                initialized |-> mqttEnabled,
                opened |-> mqttEnabled /\ reconnectEnabled]
    /\ UNCHANGED <<config, diagnostic, validation>>
    /\ ControlUnchanged

\* MqttIntegration.start on an initialized integration whose subscriber has no
\* client yet: MqttSubscriber.connect
StartMqttIntegration ==
    /\ connectAttempt.path = "initializeMqttIntegration"
    /\ connectAttempt.initialized /\ ~connectAttempt.opened
    /\ connectAttempt' =
           [connectAttempt EXCEPT !.path = "start", !.validated = FALSE,
                                  !.opened = TRUE]
    /\ UNCHANGED <<config, diagnostic, validation>>
    /\ ControlUnchanged

InitConfig ==
    /\ SubInit
    /\ maxReconnectAttempts = MaxAttemptsLimit
    /\ subscriptions = <<>>
    /\ ~updateRun
    /\ BrokerInit
    /\ config \in Settings
    /\ diagnostic = NoDiagnostic
    /\ validation = NoValidation
    /\ connectAttempt = NoAttempt
    /\ IntegrationIdle
    /\ MessageIdle
    /\ PureIdle

NextConfig ==
    \/ Diagnose
    \/ \E url \in BrokerUrls : ValidateConfig(url)
    \/ \E url \in BrokerUrls : TestConnection(url)
    \/ ConnectValidated
    \/ \E reconnectEnabled \in BOOLEAN : InitializeMqttIntegration(reconnectEnabled)
    \/ StartMqttIntegration

SpecConfig == InitConfig /\ [][NextConfig]_vars

\* ------------------------------------------------------------ SpeechHandler
\* JavaScript truthiness of a value
Truthy(x) ==
    CASE x.t = "string" -> x.v # <<>>
      [] x.t = "number" -> x.v # 0
      [] x.t = "object" -> TRUE
      [] OTHER -> FALSE

\* x || y
Or(x, y) == IF Truthy(x) THEN x ELSE y

\* values.includes(x)
includes(values, x) == x.t = "string" /\ x.v \in values

TypeValues == {Text("speech", 6), Text("alert", 5), Text("notification", 12)}

PriorityValues == {Text("high", 4), Text("medium", 6), Text("low", 3)}

EmotionValues ==
    {Text("neutral", 7), Text("happy", 5), Text("sad", 3), Text("angry", 5),
     Text("relaxed", 7), Text("surprised", 9)}

SendModes == {"direct_send", "ai_generated", "user_input"}

\* the first k characters of a string
RECURSIVE substring0(_, _)
substring0(str, k) ==
    IF k <= 0 \/ str = <<>> THEN <<>>
    ELSE IF str[1].n <= k THEN <<str[1]>> \o substring0(Tail(str), k - str[1].n)
    ELSE <<Word(str[1].w, k)>>

\* the kind of the character at index i (from 0)
RECURSIVE charAt(_, _)
charAt(str, i) ==
    IF str = <<>> THEN ""
    ELSE IF i < str[1].n THEN str[1].w ELSE charAt(Tail(str), i - str[1].n)

\* truncateTextGracefully: the loop that looks for a break point
RECURSIVE breakPointBelow(_, _, _)
breakPointBelow(text, i, low) ==
    IF i < low THEN -1
    ELSE IF charAt(text, i) \in {" ", "punctuation"} THEN i
    ELSE breakPointBelow(text, i - 1, low)

truncateTextGracefully(text, maxLength) ==
    IF length(text) <= maxLength THEN text
    ELSE LET i == breakPointBelow(text, maxLength - 1, (maxLength * 7 + 9) \div 10)
         IN  IF i >= 0 THEN substring0(text, i + 1)
             ELSE substring0(text, maxLength - 3) \o Text("...", 3)

\* replace(/\s+/g, ' ')
RECURSIVE collapseSpaces(_)
collapseSpaces(str) ==
    IF str = <<>> THEN <<>>
    ELSE IF str[1].w = " "
         THEN <<Word(" ", 1)>> \o collapseSpaces(trimStart(Tail(str)))
         ELSE <<str[1]>> \o collapseSpaces(Tail(str))

\* encodeURIComponent throws: the run holds half of a surrogate pair (a run
\* of kind "astral" counts UTF-16 code units, two for each character)
loneSurrogate(wd) ==
    wd.w = "lone surrogate" \/ (wd.w = "astral" /\ wd.n % 2 = 1)

\* sanitizeTextForTTS, for a string or undefined
sanitizeTextForTTS(text) ==
    IF ~Truthy(text) THEN <<>>
    ELSE LET trimmed == trim(text.v)
             cleaned == SelectSeq(trimmed, LAMBDA wd : wd.w # "control")
             spaced == collapseSpaces(cleaned)
             cut == IF length(spaced) > 200
                    THEN truncateTextGracefully(spaced, 200) ELSE spaced
         IN  IF \E i \in 1..Len(cut) : loneSurrogate(cut[i])
             THEN Text("message could not be processed", 16)
             ELSE cut

\* preprocessSpeechText
preprocessSpeechText(payload) ==
    LET text == trim(payload.text.v)
    IN  IF includes({Text("alert", 5)}, payload.type)
             /\ ~(\E w \in {"kinkyu", "alert-word", "keikoku"} : startsWith(text, w))
        THEN <<Word("alert-word", 4), Word("colon", 1)>> \o text
        ELSE IF includes({Text("notification", 12)}, payload.type)
                  /\ ~(\E w \in {"oshirase", "tsuuchi", "jouhou"} : startsWith(text, w))
        THEN <<Word("oshirase", 4), Word("colon", 1)>> \o text
        ELSE text

\* createTalkFromPayload
createTalkFromPayload(payload) ==
    [emotion |-> Or(payload.emotion, JString(Text("neutral", 7))),
     message |-> sanitizeTextForTTS(payload.text)]

\* variant of isHighPriority: medium interrupts too
isHighOrMediumPriority(payload) ==
    includes({Text("high", 4), Text("medium", 6)}, payload.priority)

\* executeSpeech: payload.priority === 'high'
isHighPriority(payload) == includes({Text("high", 4)}, payload.priority)

\* one invocation of SpeakQueue.stopAll or speakCharacter for the n-th payload;
\* threw: the invocation raised an exception
Call(op, n, talk, threw) == [op |-> op, n |-> n, talk |-> talk, threw |-> threw]

\* variant of speakWithHighPriority: the utterance is spoken at once and the
\* queue is stopped after it
speakWithHighPriorityLate(st, n, talk) ==
    [st EXCEPT !.calls = @ \o <<Call("speak", n, talk, FALSE),
                                Call("stopAll", n, talk, FALSE)>>]

\* speakWithHighPriority: SpeakQueue.stopAll(), then setTimeout(speak, 50)
speakWithHighPriority(st, n, talk) ==
    [st EXCEPT !.calls = Append(@, Call("stopAll", n, talk, FALSE)),
               !.urgentTimers = Append(@, [n |-> n, talk |-> talk])]

\* executeSpeech for the n-th payload; st holds the call log, the timers and
\* whether an exception is propagating; thr: speakCharacter throws
executeSpeech(talk, payload, n, st, thr) ==
    IF trim(talk.message) = <<>> THEN st
    ELSE IF isHighPriority(payload) THEN speakWithHighPriority(st, n, talk)
    ELSE [st EXCEPT !.calls = Append(@, Call("speak", n, talk, thr)),
                    !.threw = thr]

\* processDirectSend
processDirectSend(payload, n, st, thr) ==
    executeSpeech(
        createTalkFromPayload(
            [payload EXCEPT !.text = JString(preprocessSpeechText(payload))]),
        payload, n, st, thr)

SpeechState == [calls |-> calls, urgentTimers |-> urgentTimers, threw |-> FALSE]

Result(done, success, error, messageId) ==
    [done |-> done, success |-> success, error |-> error, messageId |-> messageId]

\* what handleSpeechPayload resolves with after processBySendMode ended in st
Resolved(st, payload) ==
    IF st.threw THEN Result(TRUE, FALSE, "speakCharacter failed", payload.id)
    ELSE Result(TRUE, TRUE, "", payload.id)

\* generateAiResponse was not called for the payload
NotGenerated == [state |-> "none", reply |-> <<>>]

\* variant of emptySpeechText: the text is not trimmed before the test
emptySpeechTextUntrimmed(payload) == ~Truthy(payload.text)

\* handleSpeechPayload: !payload.text || payload.text.trim().length === 0
\* (for a text that is not a string the test throws, see handleSpeechPayload)
emptySpeechText(payload) ==
    ~Truthy(payload.text)
        \/ (payload.text.t = "string" /\ trim(payload.text.v) = <<>>)

\* handleSpeechPayload(payload) up to its first await of a chat completion
handleSpeechPayload(payload) ==
    LET n == Len(handled) + 1
    IN  /\ handled' = Append(handled, payload)
        /\ IF emptySpeechText(payload)
           THEN /\ results' = Append(results, Result(TRUE, FALSE, "Empty speech text",
                                                       payload.id))
                /\ generated' = Append(generated, NotGenerated)
                /\ UNCHANGED <<calls, urgentTimers, aiWaits>>
           ELSE IF payload.text.t # "string"
           THEN \* payload.text.trim is not a function: caught by the handler
                /\ results' = Append(results, Result(TRUE, FALSE, "TypeError", payload.id))
                /\ generated' = Append(generated, NotGenerated)
                /\ UNCHANGED <<calls, urgentTimers, aiWaits>>
           ELSE IF sendMode = "direct_send"
           THEN \E thr \in BOOLEAN :
                    LET out == processDirectSend(payload, n, SpeechState, thr)
                    IN  /\ calls' = out.calls
                        /\ urgentTimers' = out.urgentTimers
                        /\ results' = Append(results, Resolved(out, payload))
                        /\ generated' = Append(generated, NotGenerated)
                        /\ UNCHANGED aiWaits
           ELSE /\ results' = Append(results, Result(FALSE, FALSE, "", payload.id))
                /\ aiWaits' = Append(aiWaits, n)
                /\ generated' = Append(generated, [state |-> "pending", reply |-> <<>>])
                /\ UNCHANGED <<calls, urgentTimers>>

\* what generateAiResponse resolves with: null, or the trimmed reply
AiReplies == {<<>>, Text("reply", 5)}

\* the try block of processAiGenerated / processUserInput after
\* generateAiResponse resolved with reply
AiSpeech(payload, n, reply, st, thr) ==
    IF sendMode = "ai_generated"
    THEN IF reply # <<>>
         THEN executeSpeech(
                  createTalkFromPayload(
                      [payload EXCEPT !.text = JString(reply),
                                      !.emotion = Or(@, JString(Text("happy", 5)))]),
                  payload, n, st, thr)
         ELSE processDirectSend(payload, n, st, thr)
    ELSE IF reply # <<>>
         THEN executeSpeech(
                  createTalkFromPayload(
                      [payload EXCEPT !.text = JString(reply),
                                      !.emotion = Or(@, JString(Text("neutral", 7)))]),
                  payload, n, st, thr)
         ELSE executeSpeech(
                  createTalkFromPayload(
                      [payload EXCEPT !.text = JString(Text("default response", 18)),
                                      !.emotion = JString(Text("sad", 3))]),
                  payload, n, st, thr)

\* processAiGenerated / processUserInput from the point generateAiResponse
\* resolved: the try block, its catch (processDirectSend), and the rest of
\* handleSpeechPayload
AiResponse(k, reply) ==
    \E thr \in BOOLEAN, thrAgain \in BOOLEAN :
        LET n == aiWaits[k]
            payload == handled[n]
            tried == AiSpeech(payload, n, reply, SpeechState, thr)
            out == IF tried.threw
                   THEN processDirectSend(payload, n, [tried EXCEPT !.threw = FALSE],
                                          thrAgain)
                   ELSE tried
        IN  /\ calls' = out.calls
            /\ urgentTimers' = out.urgentTimers
            /\ results' = [results EXCEPT ![n] = Resolved(out, payload)]
            /\ aiWaits' = RemoveAt(aiWaits, k)
            /\ generated' = [generated EXCEPT ![n] = [state |-> "resolved",
                                                      reply |-> reply]]
            /\ UNCHANGED <<handled, message, received, sendMode>>
            /\ UNCHANGED <<subVars, brokerVars, cfgVars, pureVars>>

\* the setTimeout(50) callback of speakWithHighPriority: speakCharacter
UrgentTimerFires ==
    /\ urgentTimers # <<>>
    /\ \E thr \in BOOLEAN :
           calls' = Append(calls, Call("speak", urgentTimers[1].n,
                                       urgentTimers[1].talk, thr))
    /\ urgentTimers' = Tail(urgentTimers)
    /\ UNCHANGED <<handled, results, aiWaits, generated, message, received, sendMode>>
    /\ UNCHANGED <<subVars, brokerVars, cfgVars, pureVars>>

\* ------------------------------------------------------- inbound messages
WellFormed ==
    [id |-> JString(Text("m1", 2)), text |-> JString(Text("hello", 5)),
     type |-> JString(Text("speech", 6)), priority |-> JString(Text("medium", 6)),
     timestamp |-> JString(Text("2026-01-01T00:00:00.000Z", 24)),
     emotion |-> undefinedValue, speaker |-> undefinedValue,
     metadata |-> undefinedValue]

FieldNames ==
    {"id", "text", "type", "priority", "timestamp", "emotion", "speaker", "metadata"}

JsonObjects ==
    [id : {WellFormed.id, undefinedValue, JNumber(7)},
     text : {WellFormed.text, undefinedValue, JString(<<>>), JString(Text(" ", 1))},
     type : {JString(v) : v \in TypeValues}
                \cup {undefinedValue, JString(Text("bogus", 5))},
     priority : {JString(v) : v \in PriorityValues}
                    \cup {undefinedValue, JString(Text("urgent", 6))},
     timestamp : {WellFormed.timestamp, undefinedValue},
     emotion : {undefinedValue, JString(Text("happy", 5)),
                JString(Text("furious", 7)), JNumber(1)},
     speaker : {undefinedValue, JString(Text("alice", 5)), JNumber(7)},
     metadata : {undefinedValue, JObject, JString(Text("note", 4))}]

Defects(fields) == Cardinality({f \in FieldNames : fields[f] # WellFormed[f]})

\* the inbound messages: plain text, the JSON documents null and 42, and the
\* JSON objects near the well-formed one
Messages ==
    {[kind |-> "text", raw |-> Text("hello", 5), fields |-> NoFields],
     [kind |-> "null", raw |-> Text("null", 4), fields |-> NoFields],
     [kind |-> "scalar", raw |-> Text("42", 2), fields |-> NoFields]}
    \cup {[kind |-> "object", raw |-> Text("{json}", 64), fields |-> o] :
             o \in {x \in JsonObjects : Defects(x) <= MaxDefects}}

\* validateSpeechPayload for a parsed object
validateSpeechPayload(payload) ==
    /\ payload.id.t = "string"
    /\ payload.text.t = "string"
    /\ includes(TypeValues, payload.type)
    /\ includes(PriorityValues, payload.priority)
    /\ payload.timestamp.t = "string"

Rejected(path, error) ==
    /\ received' = [path |-> path, outcome |-> "rejected", error |-> error,
                    payload |-> NoFields]
    /\ UNCHANGED <<handled, results, calls, urgentTimers, aiWaits, generated>>

\* variant of SubscriberHandleMessage: once a message was rejected, the
\* payloads that follow are rejected too
SubscriberHandleMessageUntilFailure ==
    /\ message.kind # "none" /\ received.outcome = "none"
    /\ IF message.kind = "object" /\ validateSpeechPayload(message.fields)
            /\ \A i \in 1..Len(delivered) : delivered[i] # "rejected"
       THEN /\ received' = [path |-> "subscriber", outcome |-> "dispatched",
                            error |-> "", payload |-> message.fields]
            /\ handleSpeechPayload(message.fields)
       ELSE Rejected("subscriber", "message-validate")
    /\ UNCHANGED <<message, sendMode>>
    /\ UNCHANGED <<subVars, brokerVars, cfgVars, pureVars>>

\* MqttSubscriber.handleMessage; its messageReceived event runs
\* MqttIntegration.handleReceivedMessage, which calls handleSpeechPayload
SubscriberHandleMessage ==
    /\ message.kind # "none" /\ received.outcome = "none"
    /\ CASE message.kind = "text" -> Rejected("subscriber", "message-parse")
         [] message.kind = "null" -> Rejected("subscriber", "message-handle")
         [] message.kind = "scalar" -> Rejected("subscriber", "message-validate")
         [] OTHER ->
              IF validateSpeechPayload(message.fields)
              THEN /\ received' = [path |-> "subscriber", outcome |-> "dispatched",
                                   error |-> "", payload |-> message.fields]
                   /\ handleSpeechPayload(message.fields)
              ELSE Rejected("subscriber", "message-validate")
    /\ UNCHANGED <<message, sendMode>>
    /\ UNCHANGED <<subVars, brokerVars, cfgVars, pureVars>>

\* MqttBrokerIntegration.handleReceivedMessage: the SpeechPayload it builds
\* from a parsed JSON document
speechPayloadOf(msg) ==
    [NoFields EXCEPT !.id = Or(msg.fields.id, JString(Text("mqtt-now", 18))),
                     !.text = Or(msg.fields.text, JString(msg.raw)),
                     !.type = Or(msg.fields.type, JString(Text("speech", 6))),
                     !.emotion = Or(msg.fields.emotion, undefinedValue),
                     !.priority = Or(msg.fields.priority, JString(Text("medium", 6))),
                     !.timestamp = Or(msg.fields.timestamp, JString(Text("now", 24)))]

\* JSON.parse(messageStr) returns
parses(msg) == msg.kind # "text"

\* variant of BrokerHandleReceivedMessage: text that is not JSON is dispatched
\* as the text of a payload with the default fields
BrokerHandleReceivedMessagePlainText ==
    /\ message.kind # "none" /\ received.outcome = "none"
    /\ IF message.kind = "null" THEN Rejected("broker", "TypeError")
       ELSE LET payload ==
                    IF parses(message) THEN speechPayloadOf(message)
                    ELSE speechPayloadOf([message EXCEPT !.fields = NoFields])
            IN  /\ received' = [path |-> "broker", outcome |-> "dispatched",
                                error |-> "", payload |-> payload]
                /\ handleSpeechPayload(payload)
    /\ UNCHANGED <<message, sendMode>>
    /\ UNCHANGED <<subVars, brokerVars, cfgVars, pureVars>>

\* MqttBrokerIntegration.handleReceivedMessage
BrokerHandleReceivedMessage ==
    /\ message.kind # "none" /\ received.outcome = "none"
    /\ IF ~parses(message) THEN Rejected("broker", "not valid JSON")
       ELSE IF message.kind = "null" THEN Rejected("broker", "TypeError")
       ELSE LET payload == speechPayloadOf(message)
            IN  /\ received' = [path |-> "broker", outcome |-> "dispatched",
                                error |-> "", payload |-> payload]
                /\ handleSpeechPayload(payload)
    /\ UNCHANGED <<message, sendMode>>
    /\ UNCHANGED <<subVars, brokerVars, cfgVars, pureVars>>

ControlIdle ==
    /\ SubInit
    /\ maxReconnectAttempts = MaxAttemptsLimit
    /\ subscriptions = <<>>
    /\ ~updateRun
    /\ BrokerInit
    /\ mqttEnabled = FALSE

InitMessage ==
    /\ ControlIdle
    /\ ConfigIdle
    /\ PureIdle
    /\ message \in Messages
    /\ received = NotReceived
    /\ sendMode \in SendModes
    /\ SpeechIdle

NextMessage ==
    \/ SubscriberHandleMessage
    \/ BrokerHandleReceivedMessage
    \/ \E k \in 1..Len(aiWaits), reply \in AiReplies : AiResponse(k, reply)
    \/ UrgentTimerFires

SpecMessage == InitMessage /\ [][NextMessage]_vars

\* the payloads the speech handler is given directly
SpeechPayloads ==
    {[WellFormed EXCEPT !.priority = JString(pr), !.text = JString(tx)] :
         pr \in PriorityValues,
         tx \in {Text("hello", 5), Text(" ", 1), <<>>, Text("control", 2)}}
    \cup {[WellFormed EXCEPT !.id = JString(Text("m2", 2)),
                             !.emotion = JString(Text("happy", 5))]}

\* one handleSpeechPayload call
Dispatch(payload) ==
    /\ Len(handled) < MaxDispatches
    /\ handleSpeechPayload(payload)
    /\ UNCHANGED <<message, received, sendMode>>
    /\ UNCHANGED <<subVars, brokerVars, cfgVars, pureVars>>

InitSpeech ==
    /\ ControlIdle
    /\ ConfigIdle
    /\ PureIdle
    /\ message = NoMessage
    /\ received = NotReceived
    /\ sendMode \in SendModes
    /\ SpeechIdle

NextSpeech ==
    \/ \E payload \in SpeechPayloads : Dispatch(payload)
    \/ \E k \in 1..Len(aiWaits), reply \in AiReplies : AiResponse(k, reply)
    \/ UrgentTimerFires

SpecSpeech == InitSpeech /\ [][NextSpeech]_vars

TypeOK ==
    /\ client \in 0..Len(transports)
    /\ connectionStatus \in {"disconnected", "connecting", "connected", "error"}
    /\ reconnectAttempts \in Nat
    /\ dpc \in {"idle", "awaitUnsub", "awaitEnd"}
    /\ liveIntervals \in 0..1
    /\ loading \in 0..MaxBrokerClients
    /\ brokerClient \in 0..Len(brokerTransports)
    /\ mqttConnectionStatus \in {"disconnected", "connecting", "connected"}
    /\ connectionCheckInterval <=> liveIntervals = 1

\* ============================================================ properties
\* steps, recognised by what they change
RetryScheduled == BagCardinality(timers') > BagCardinality(timers)

ClosedIn(t) ==
    /\ t \in DOMAIN transports
    /\ transports[t].state # "closed"
    /\ transports'[t].state = "closed"

OfflineIn(t) ==
    /\ t \in DOMAIN transports
    /\ transports[t].state = "closed"
    /\ ~transports[t].ending
    /\ ~transports[t].offl
    /\ transports'[t].offl

ConnectFailedIn(t) ==
    /\ t \in DOMAIN transports
    /\ transports[t].cpc = "awaitConnect"
    /\ transports'[t].cpc \in {"rejected", "settled"}

TransportOpened == Len(transports') = Len(transports) + 1

\* C2: when the reconnect timer fires after a failed attempt (the status is
\* error or disconnected and no disconnect() is in flight), the retry re-enters
\* connecting and opens a new transport.
C2_RetryReopens ==
    [][ ( /\ BagCardinality(timers') < BagCardinality(timers)
          /\ connectionStatus \in {"error", "disconnected"}
          /\ dpc = "idle"
          /\ ~explicitDisc )
        => (connectionStatus' = "connecting" /\ TransportOpened) ]_vars

\* C3: once an explicit disconnect() has completed, and until the next explicit
\* connect(), no reconnect timer is pending and no client has been reopened.
C3_NoRetryAfterDisconnect ==
    explicitDisc => (timers = EmptyBag /\ client = 0)

C5_ZeroBeforeRetry ==
    [][ (RetryScheduled /\ freshlyConnected) => reconnectAttempts = 0 ]_vars

\* C6: the k-th consecutive scheduled retry waits 1000, 2000, 4000, 8000, 16000,
\* 30000, 30000, ... ms.
ExpectedDelays == <<1000, 2000, 4000, 8000, 16000, 30000, 30000>>

ExpectedDelay(k) == IF k <= Len(ExpectedDelays) THEN ExpectedDelays[k] ELSE 30000

C6_DelaySequence ==
    [][ RetryScheduled =>
          /\ reconnectAttempts' = reconnectAttempts + 1
          /\ timers' = timers (+) SetToBag({ExpectedDelay(reconnectAttempts')}) ]_vars

C6_Witness ==
    /\ maxReconnectAttempts = 0
    /\ reconnectAttempts = 6
    /\ BagIn(30000, timers)
    /\ BagIn(16000, timers)

RequestsUpTo(j) ==
    { <<subscriptions[k].topic, subscriptions[k].qos>> :
          k \in { i \in 1..j : subscriptions[i].active } }

C1_AtMostOneLiveClient ==
    Cardinality({ t \in BTIds : BrokerLive(t) }) <= 1

\* steps of MqttBrokerIntegration.disconnect(), recognised by what they change
DisconnectStartedOn(t) ==
    /\ t \in DOMAIN brokerTransports
    /\ ~brokerTransports[t].endPending
    /\ brokerTransports'[t].endPending

DisconnectEndedOn(t) ==
    /\ t \in DOMAIN brokerTransports
    /\ brokerTransports[t].endPending
    /\ ~brokerTransports'[t].endPending

C10_SinglePollInterval ==
    /\ liveIntervals <= 1
    /\ teardownDone => liveIntervals = 0

\* C11: every step that changes connectionStatus emits exactly one
\* connectionStatusChanged notification, carrying the new status, and a step
\* that leaves the status as it was emits none.
C11_OneNotificationPerChange ==
    [][ emitted' = IF connectionStatus' # connectionStatus
                   THEN <<connectionStatus'>> ELSE <<>> ]_subVars

C11_Witness ==
    /\ connectionStatus = "error"
    /\ emitted = <<"error">>
    /\ \E t \in TIds : transports[t].cpc = "rejected"

\* steps of updateSubscriptions and disconnect(), recognised by what they change
UpdateCalled == updatesLeft' < updatesLeft

DisconnectStarted == dpc = "idle" /\ dpc' # "idle"

RequestsSent ==
    \E t \in DOMAIN transports :
        \/ ~(transports'[t].issued \subseteq transports[t].issued)
        \/ ~(transports'[t].unsubs \subseteq transports[t].unsubs)

\* C12: disconnect() or updateSubscriptions called while the status is not
\* connected sends no subscribe or unsubscribe request and leaves the status
\* unchanged.
C12_NoOpUnlessConnected ==
    [][ (connectionStatus # "connected" /\ (UpdateCalled \/ DisconnectStarted))
        => (~RequestsSent /\ connectionStatus' = connectionStatus) ]_vars

\* C13: every connection attempt has run the configuration validation first,
\* and an attempt whose configuration has at least one issue (empty host, port
\* outside 1..65535, empty client id, websocket without a path) opens no
\* transport.
C13_IssuesBlockAttempt ==
    connectAttempt.path # "none" =>
        /\ connectAttempt.validated
        /\ connectAttempt.issues # <<>> => ~connectAttempt.opened

Range(seq) == {seq[i] : i \in 1..Len(seq)}

\* C14: diagnoseMqttConfig returns valid = true exactly when its issues list is
\* empty; an empty host, a port outside 1..65535, an empty client id and the
\* websocket protocol without a path each add their own issue; warnings have
\* no part in valid.
C14_ValidIffNoIssues ==
    diagnostic.called =>
        /\ diagnostic.valid <=> diagnostic.issues = <<>>
        /\ hostMissing(config) <=> "host is not set" \in Range(diagnostic.issues)
        /\ portInvalid(config)
               <=> "port is invalid (1-65535)" \in Range(diagnostic.issues)
        /\ clientIdMissing(config)
               <=> "client id is not set" \in Range(diagnostic.issues)
        /\ websocketPathMissing(config)
               <=> "websocket path is not set" \in Range(diagnostic.issues)
        /\ Cardinality(Range(diagnostic.issues)) = Len(diagnostic.issues)

C14_Witness ==
    /\ diagnostic.called
    /\ diagnostic.valid
    /\ Len(diagnostic.warnings) >= 2

\* C15: MqttBrokerIntegration.validateConfig rejects a broker URL that does not
\* start with mqtt://, mqtts://, ws:// or wss://: valid is false and errors is
\* not empty; and valid is true only when errors is empty.
C15_InvalidUrlRejected ==
    validation.called =>
        /\ ~validation.urlOk => (~validation.valid /\ validation.errors # <<>>)
        /\ validation.valid => validation.errors = <<>>

\* the message is a JSON object that lacks a required field or carries a type
\* or priority outside the fixed sets
IllFormed ==
    /\ message.kind = "object"
    /\ \/ \E f \in {"id", "text", "type", "priority", "timestamp"} :
              message.fields[f].t = "undefined"
       \/ ~includes(TypeValues, message.fields.type)
       \/ ~includes(PriorityValues, message.fields.priority)

\* C16: an inbound message that lacks any of id, text, type, priority or
\* timestamp, or whose type or priority is outside the fixed sets, is rejected
\* as a whole and never handed to the speech handler, on either receive path.
C16_IllFormedRejected ==
    (IllFormed /\ received.outcome # "none")
        => (received.outcome = "rejected" /\ handled = <<>> /\ calls = <<>>)

C18_OptionalFieldsFiltered ==
    (message.kind = "object" /\ validateSpeechPayload(message.fields)
         /\ received.outcome # "none")
        => /\ received.outcome = "dispatched"
           /\ received.payload.emotion =
                  IF includes(EmotionValues, message.fields.emotion)
                  THEN message.fields.emotion ELSE undefinedValue
           /\ received.payload.speaker =
                  IF message.fields.speaker.t = "string"
                  THEN message.fields.speaker ELSE undefinedValue
           /\ received.payload.metadata =
                  IF message.fields.metadata.t = "object"
                  THEN message.fields.metadata ELSE undefinedValue
           /\ \A i \in 1..Len(calls) : includes(EmotionValues, calls[i].talk.emotion)

\* the n-th payload handed to the speech handler has priority high
HighPayload(n) == handled[n].priority = JString(Text("high", 4))

\* C19: for a payload of priority high, stopAll is invoked strictly before the
\* speak invocation for that payload, whatever else is in flight, and a high
\* payload whose speak invocation is still to come has had its stopAll.
C19_StopAllBeforeSpeak ==
    /\ \A j \in 1..Len(calls) :
           (calls[j].op = "speak" /\ HighPayload(calls[j].n))
               => \E i \in 1..(j - 1) :
                      calls[i].op = "stopAll" /\ calls[i].n = calls[j].n
    /\ \A k \in 1..Len(urgentTimers) :
           \E i \in 1..Len(calls) :
               calls[i].op = "stopAll" /\ calls[i].n = urgentTimers[k].n

C19_Witness ==
    \E j \in 1..Len(calls) :
        /\ calls[j].op = "speak" /\ HighPayload(calls[j].n)
        /\ \E i \in 1..(j - 1) : calls[i].op = "speak" /\ calls[i].n # calls[j].n

\* C20: a payload of priority medium or low never invokes stopAll.
C20_NoStopAllBelowHigh ==
    \A i \in 1..Len(calls) : calls[i].op = "stopAll" => HighPayload(calls[i].n)

C20_Witness ==
    /\ calls # <<>>
    /\ calls[Len(calls)].op = "speak"
    /\ ~HighPayload(calls[Len(calls)].n)
    /\ urgentTimers # <<>>

\* C21: speak invocations are issued in the arrival order of their payloads: a
\* payload handed to the handler earlier is never spoken after a later one.
C21_SpeakInArrivalOrder ==
    \A i, j \in 1..Len(calls) :
        (i < j /\ calls[i].op = "speak" /\ calls[j].op = "speak")
            => calls[i].n <= calls[j].n

\* the n-th payload was spoken by an invocation that did not throw
Spoken(n) ==
    \E j \in 1..Len(calls) :
        calls[j].n = n /\ calls[j].op = "speak" /\ ~calls[j].threw

\* C22: handleSpeechPayload always resolves with a result, and an exception
\* raised while speaking a payload yields a result with success = false for
\* that payload (unless the handler recovered and spoke the payload after all).
C22_ExceptionsBecomeFailures ==
    /\ Len(results) = Len(handled)
    /\ \A n \in 1..Len(results) :
           ~results[n].done <=> \E k \in 1..Len(aiWaits) : aiWaits[k] = n
    /\ \A i \in 1..Len(calls) :
           (calls[i].threw /\ results[calls[i].n].done /\ ~Spoken(calls[i].n))
               => ~results[calls[i].n].success

\* the text of the n-th payload is empty after trimming
BlankPayload(n) == handled[n].text.t = "string" /\ trim(handled[n].text.v) = <<>>

\* C23: a payload whose text is empty after trimming is rejected with a failed
\* result and has no downstream effect: no speak, no stopAll and no
\* chat-completion call, in every send mode and priority.
C23_EmptyTextRejected ==
    \A n \in 1..Len(handled) :
        BlankPayload(n)
            => /\ results[n] = Result(TRUE, FALSE, "Empty speech text", handled[n].id)
               /\ \A i \in 1..Len(calls) : calls[i].n # n
               /\ \A k \in 1..Len(aiWaits) : aiWaits[k] # n
               /\ \A k \in 1..Len(urgentTimers) : urgentTimers[k].n # n

C23_Witness ==
    /\ sendMode = "user_input"
    /\ Len(handled) = 2
    /\ BlankPayload(2) /\ HighPayload(2) /\ handled[2].text.v # <<>>
    /\ aiWaits = <<1>>

\* the utterance processDirectSend makes of the n-th payload
DirectTalk(n) ==
    createTalkFromPayload(
        [handled[n] EXCEPT !.text = JString(preprocessSpeechText(handled[n]))])

\* the utterances of the n-th payload handed to speakCharacter, with the ones
\* still waiting in a setTimeout(50) callback
Utterances(n) ==
    {calls[i].talk : i \in {j \in 1..Len(calls) : calls[j].op = "speak" /\ calls[j].n = n}}
        \cup {urgentTimers[k].talk :
                 k \in {j \in 1..Len(urgentTimers) : urgentTimers[j].n = n}}

SpeakInvocations(n) ==
    Cardinality({j \in 1..Len(calls) : calls[j].op = "speak" /\ calls[j].n = n})
        + Cardinality({j \in 1..Len(urgentTimers) : urgentTimers[j].n = n})

\* generateAiResponse resolved with null for the n-th payload
NoReply(n) == generated[n].state = "resolved" /\ generated[n].reply = <<>>

\* C24: in ai_generated mode a payload whose chat completion produced nothing
\* (no chunks, only whitespace, or a failure: generateAiResponse resolves with
\* null) is spoken through processDirectSend with its original text, and
\* exactly one speakCharacter invocation (made or scheduled) results.
C24_DirectFallbackSpeaksOnce ==
    sendMode = "ai_generated" =>
        \A n \in 1..Len(handled) :
            NoReply(n) => (Utterances(n) = {DirectTalk(n)} /\ SpeakInvocations(n) = 1)

\* the apology processUserInput speaks when there is no reply
Apology ==
    [emotion |-> JString(Text("sad", 3)),
     message |-> sanitizeTextForTTS(JString(Text("default response", 18)))]

\* C25: in user_input mode a payload whose chat completion produced nothing
\* is answered with the fixed apology and emotion sad, and no payload's
\* original text is ever handed to speakCharacter in this mode.
C25_ApologyNeverOriginal ==
    sendMode = "user_input" =>
        \A n \in 1..Len(handled) :
            /\ NoReply(n) => Utterances(n) = {Apology}
            /\ DirectTalk(n).message \notin {t.message : t \in Utterances(n)}

\* the n-th payload is one C26 speaks of: a speech payload with a text that is
\* not blank and a priority below high, handled in direct_send mode
DirectSpeech(n) ==
    /\ sendMode = "direct_send"
    /\ includes({Text("speech", 6)}, handled[n].type)
    /\ ~BlankPayload(n) /\ handled[n].text.t = "string"
    /\ ~HighPayload(n)

OneSpeakCall(n) ==
    \E i \in 1..Len(calls) :
        /\ calls[i].n = n /\ calls[i].op = "speak"
        /\ calls[i].talk =
               [emotion |-> Or(handled[n].emotion, JString(Text("neutral", 7))),
                message |-> sanitizeTextForTTS(handled[n].text)]
        /\ \A j \in 1..Len(calls) : calls[j].n = n => j = i

\* C26: in direct_send mode a speech payload with non-empty text and
\* priority medium or low causes exactly one speak call, with the sanitized
\* text and the payload's emotion or neutral, and the result reports
\* success = true with messageId equal to the payload id.
C26_DirectSendSucceeds ==
    \A n \in 1..Len(handled) :
        DirectSpeech(n) =>
            /\ OneSpeakCall(n)
            /\ results[n] = Result(TRUE, TRUE, "", handled[n].id)

\* --------------------------------------------------- sanitizeTextForTTS alone
\* the character numbers (from 1) at which the texts carry a delimiter
DelimiterPositions == {100, 140, 141, 180, 200, 201}

TextLengths == {200, 201, 250}

\* n characters of a kind; a character of kind "astral" takes two UTF-16 code
\* units, so that an odd run ends with one character of the basic plane
Run(kind, n) ==
    IF n = 0 THEN <<>>
    ELSE IF kind = "astral" /\ n % 2 = 1
    THEN (IF n = 1 THEN <<>> ELSE <<Word("astral", n - 1)>>) \o <<Word("a", 1)>>
    ELSE <<Word(kind, n)>>

\* the delimiter at character d: a space only inside the text and where its
\* neighbours are not spaces (trim and /\s+/ leave such a text as it is)
DelimiterAt(d, delimiter) ==
    IF d \in {140, 200, 201} THEN "punctuation" ELSE delimiter

\* the text of characters from..total of a kind with delimiters at D
RECURSIVE LongText(_, _, _, _, _)
LongText(from, total, D, kind, delimiter) ==
    LET ahead == {d \in D : from <= d /\ d <= total}
    IN  IF ahead = {} THEN Run(kind, total - from + 1)
        ELSE LET d == CHOOSE x \in ahead : \A y \in ahead : x <= y
             IN  Run(kind, d - from) \o <<Word(DelimiterAt(d, delimiter), 1)>>
                     \o LongText(d + 1, total, D, kind, delimiter)

TtsTexts ==
    {LongText(1, total, D, kind, delimiter) :
         total \in TextLengths, D \in SUBSET DelimiterPositions,
         kind \in {"a", "astral"}, delimiter \in {"punctuation", " "}}

\* one sanitizeTextForTTS call
SanitizeTextForTTS ==
    /\ ~ttsSanitized.done
    /\ ttsSanitized' = [done |-> TRUE, text |-> sanitizeTextForTTS(JString(ttsText))]
    /\ UNCHANGED <<ttsText, delivered, generatedIds, uuids, now, pureCalls>>
    /\ UNCHANGED <<subVars, brokerVars, cfgVars, msgVars>>

InitSanitize ==
    /\ ControlIdle
    /\ ConfigIdle
    /\ MessageIdle
    /\ ttsText \in TtsTexts
    /\ ttsSanitized = NotSanitized
    /\ delivered = <<>>
    /\ generatedIds = <<>>
    /\ uuids = <<>>
    /\ now = 1
    /\ pureCalls = <<>>

NextSanitize == SanitizeTextForTTS

SpecSanitize == InitSanitize /\ [][NextSanitize]_vars

\* the first k characters of out are the first k characters of str
SamePrefix(out, str, k) == \A i \in 0..(k - 1) : charAt(out, i) = charAt(str, i)

\* the indices 140..199 of str that hold a delimiter
WindowDelimiters(str) == {i \in 140..199 : charAt(str, i) \in {" ", "punctuation"}}

\* out is the first 197 characters of str and the ellipsis marker
EllipsisCut(out, str) ==
    /\ length(out) = 200
    /\ SamePrefix(out, str, 197)
    /\ \A i \in 197..199 : charAt(out, i) = "..."

\* C27: sanitizing a text longer than 200 characters gives its characters up
\* to and including the delimiter with the highest index in 140..199, and,
\* when that window holds no delimiter, its first 197 characters followed by
\* the ellipsis marker; so a 250-character text without delimiter gives 197
\* characters and the marker, and with a period as character 180 its first 180.
C27_TruncatedAtDelimiter ==
    (ttsSanitized.done /\ length(ttsText) > 200) =>
        LET window == WindowDelimiters(ttsText)
            out == ttsSanitized.text
        IN  IF window # {}
            THEN LET k == (CHOOSE x \in window : \A y \in window : y <= x) + 1
                 IN  length(out) = k /\ SamePrefix(out, ttsText, k)
            ELSE EllipsisCut(out, ttsText)

\* ------------------------------------------------------- a stream of messages
MaxMessages == 2        \* messages MQTT.js delivers in a run

\* the messages of the stream: text that is not JSON, the JSON documents null
\* and 42 (not a payload), a well-formed payload, and one with priority high
StreamMessages ==
    {m \in Messages : m.kind # "object"}
    \cup {[kind |-> "object", raw |-> Text("{json}", 64), fields |-> o] :
             o \in {WellFormed,
                    [WellFormed EXCEPT !.priority = JString(Text("high", 4))]}}

\* the MqttSubscriber client is connected and has sent a subscribe request
SubscriberListening ==
    client # 0 /\ transports[client].state = "open" /\ transports[client].issued # {}

\* the same for the MqttBrokerIntegration client
BrokerListening ==
    BrokerConnected(brokerTransports, brokerClient)
        /\ brokerTransports[brokerClient].subIssued

\* MQTT.js emits 'message': the handler of the message before it has returned
MessageEvent(msg) ==
    /\ SubscriberListening \/ BrokerListening
    /\ Len(delivered) + (IF message = NoMessage THEN 0 ELSE 1) < MaxMessages
    /\ message = NoMessage \/ received.outcome # "none"
    /\ message' = msg
    /\ received' = NotReceived
    /\ delivered' = IF message = NoMessage THEN delivered
                    ELSE Append(delivered, received.outcome)
    /\ UNCHANGED <<sendMode, handled, results, calls, urgentTimers, aiWaits, generated,
                   ttsText, ttsSanitized, generatedIds, uuids, now, pureCalls>>
    /\ UNCHANGED <<subVars, brokerVars, cfgVars>>

\* an MqttSubscriber after connect() resolved and an MqttBrokerIntegration
\* after its connect event, each with one transport
InitStream ==
    /\ client = 1
    /\ connectionStatus = "connected"
    /\ reconnectAttempts = 0
    /\ maxReconnectAttempts = MaxAttemptsLimit
    /\ subscriptions \in SubscriptionConfigs \ {<<>>}
    /\ transports = <<[NewTransport EXCEPT !.state = "open", !.cpc = "resolved",
                                           !.issued = ActiveRequests(subscriptions)]>>
    /\ timers = EmptyBag
    /\ dpc = "idle"
    /\ dIdx = 0
    /\ explicitDisc = FALSE
    /\ freshlyConnected = TRUE
    /\ emitted = <<>>
    /\ dSubs = <<>>
    /\ updateRun = FALSE
    /\ updatesLeft = 0
    /\ uLoops = <<>>
    /\ brokerClient = 1
    /\ connectionCheckInterval = TRUE
    /\ liveIntervals = 1
    /\ mqttConnectionStatus = "connected"
    /\ mqttEnabled = TRUE
    /\ loading = 0
    /\ brokerTransports = <<[NewBrokerTransport EXCEPT !.state = "open",
                                                       !.subIssued = TRUE]>>
    /\ teardownDone = FALSE
    /\ ConfigIdle
    /\ PureIdle
    /\ message = NoMessage
    /\ received = NotReceived
    /\ sendMode \in SendModes
    /\ SpeechIdle

NextStream ==
    \/ \E msg \in StreamMessages : MessageEvent(msg)
    \/ SubscriberListening /\ SubscriberHandleMessage
    \/ BrokerListening /\ BrokerHandleReceivedMessage
    \/ \E k \in 1..Len(aiWaits), reply \in AiReplies : AiResponse(k, reply)
    \/ UrgentTimerFires
    \/ \E t \in TIds : CloseEvent(t)
    \/ \E t \in BTIds : BrokerCloseEvent(t)

SpecStream == InitStream /\ [][NextStream]_vars

\* a handler has run on the message of the run and the message is a
\* well-formed payload
ValidMessageHandled ==
    received.outcome # "none" /\ message.kind = "object" /\ message.fields = WellFormed

\* a step of message processing: a handler returns, a chat completion
\* resolves, or a delayed utterance is spoken
MessageStep == received' # received \/ results' # results \/ calls' # calls

C29_ClientIdStoredOnSuccess ==
    [][config'.clientId # config.clientId =>
           (connectAttempt'.opened /\ mqttConnectionStatus' = "connected")]_vars

\* ------------------------------------------------ generateAituberClientId alone
MaxGenerated == 3       \* generateAituberClientId calls in a run
MaxClock == 3           \* milliseconds the clock advances through

\* one generateAituberClientId call; uuidv4() returns a value it has not
\* returned before
GenerateAituberClientId ==
    /\ Len(generatedIds) < MaxGenerated
    /\ Len(uuids) < Len(UuidSequence)
    /\ LET uuid == UuidSequence[Len(uuids) + 1] IN
           /\ uuids' = Append(uuids, uuid)
           /\ generatedIds' =
                  Append(generatedIds, generateAituberClientId(uuid, Timestamps[now]))
    /\ UNCHANGED <<now, ttsText, ttsSanitized, delivered, pureCalls>>
    /\ UNCHANGED <<subVars, brokerVars, cfgVars, msgVars>>

\* a millisecond passes
ClockTick ==
    /\ now < MaxClock /\ now < Len(Timestamps)
    /\ now' = now + 1
    /\ UNCHANGED <<generatedIds, uuids, ttsText, ttsSanitized, delivered, pureCalls>>
    /\ UNCHANGED <<subVars, brokerVars, cfgVars, msgVars>>

InitClientId ==
    /\ ControlIdle
    /\ ConfigIdle
    /\ MessageIdle
    /\ PureIdle

MaxConversions == 2     \* convertLegacyClientId calls in a run

\* the ids convertLegacyClientId is handed: none, blank, legacy ids (one of
\* two lines), canonical ids, and what an earlier call returned
LegacyClientIds ==
    {<<>>, undefined, Text(" ", 1), Text("mqttjs_12345678", 15),
     <<Word("device", 6), Word("line terminator", 1), Word("42", 2)>>,
     AituberId, AituberId \o <<Word("-", 1), Word("user123", 7)>>}
    \cup {pureCalls[i].result : i \in 1..Len(pureCalls)}

\* one convertLegacyClientId call
ConvertLegacyClientId(legacyClientId) ==
    /\ Len(pureCalls) < MaxConversions
    /\ Len(uuids) < Len(UuidSequence)
    /\ LET uuid == UuidSequence[Len(uuids) + 1] IN
           /\ uuids' = IF isAituberClientId(legacyClientId) THEN uuids
                       ELSE Append(uuids, uuid)
           /\ pureCalls' =
                  Append(pureCalls,
                         [fn |-> "convertLegacyClientId", arg |-> legacyClientId,
                          result |-> convertLegacyClientId(legacyClientId, uuid,
                                                           Timestamps[now])])
    /\ UNCHANGED <<now, generatedIds, ttsText, ttsSanitized, delivered>>
    /\ UNCHANGED <<subVars, brokerVars, cfgVars, msgVars>>

NextClientId ==
    \/ GenerateAituberClientId
    \/ ClockTick
    \/ \E id \in LegacyClientIds : ConvertLegacyClientId(id)

SpecClientId == InitClientId /\ [][NextClientId]_vars

\* C30: generateAituberClientId never returns a value it returned before,
\* and every value it returns satisfies isAituberClientId.
C30_GeneratedIdsUniqueAndCanonical ==
    /\ \A i, j \in 1..Len(generatedIds) : i # j => generatedIds[i] # generatedIds[j]
    /\ \A i \in 1..Len(generatedIds) : isAituberClientId(generatedIds[i])

\* two calls in the same millisecond
C30_Witness ==
    /\ Len(generatedIds) >= 2
    /\ generatedIds[1][4] = generatedIds[2][4]

\* the result ends with the original value as a trailing segment
EndsWithOriginal(result, original) ==
    /\ Len(result) = 5 + Len(original)
    /\ result[5] = Word("-", 1)
    /\ SubSeq(result, 6, Len(result)) = original

\* C31: convertLegacyClientId returns a canonical input unchanged, a freshly
\* generated canonical id for an empty or absent input, and otherwise a new
\* canonical id that ends with the original value; its result always
\* satisfies isAituberClientId, so converting its own result changes nothing.
C31_ConvertIsCanonicalAndIdempotent ==
    \A k \in 1..Len(pureCalls) :
        LET c == pureCalls[k]
        IN  /\ isAituberClientId(c.result)
            /\ isAituberClientId(c.arg) => c.result = c.arg
            /\ Falsy(c.arg) =>
                   (Len(c.result) = 4 /\ \A i \in 1..Len(generatedIds) :
                                             generatedIds[i] # c.result)
            /\ (~Falsy(c.arg) /\ ~isAituberClientId(c.arg)) =>
                   EndsWithOriginal(c.result, c.arg)
            /\ (k > 1 /\ c.arg = pureCalls[k - 1].result) => c.result = c.arg

\* ------------------------------------------------------ analyzeMqttError alone
MaxAnalyses == 2        \* analyzeMqttError calls in a run

\* the keywords of analyzeMqttError with the code each one selects, in the
\* order of the tests
ErrorKeywords ==
    <<<<"timeout", "CONNECTION_TIMEOUT">>,
      <<"connection refused", "CONNECTION_REFUSED">>,
      <<"econnrefused", "CONNECTION_REFUSED">>,
      <<"authentication", "AUTHENTICATION_FAILED">>,
      <<"unauthorized", "AUTHENTICATION_FAILED">>,
      <<"bad username or password", "AUTHENTICATION_FAILED">>,
      <<"ssl", "SSL_TLS_ERROR">>, <<"tls", "SSL_TLS_ERROR">>,
      <<"certificate", "SSL_TLS_ERROR">>,
      <<"network", "NETWORK_ERROR">>, <<"dns", "NETWORK_ERROR">>,
      <<"getaddrinfo", "NETWORK_ERROR">>,
      <<"websocket", "WEBSOCKET_ERROR">>, <<"ws", "WEBSOCKET_ERROR">>,
      <<"protocol", "PROTOCOL_ERROR">>, <<"mqtt", "PROTOCOL_ERROR">>>>

\* String.prototype.toLowerCase on the words the error messages are made of
toLowerCase(str) ==
    [i \in 1..Len(str) |->
        [str[i] EXCEPT !.w = CASE @ = "Timeout" -> "timeout"
                               [] @ = "ECONNREFUSED" -> "econnrefused"
                               [] @ = "WebSocket" -> "websocket"
                               [] @ = "Failed" -> "failed"
                               [] OTHER -> @]]

\* message.includes(keyword)
messageIncludes(lowered, keyword) == \E i \in 1..Len(lowered) : lowered[i].w = keyword

\* the value `throw` or a rejection hands over: an Error with its message, or
\* a value that has no message property
ErrorWith(text) == [hasMessage |-> TRUE, message |-> text]

ErrorValues ==
    {ErrorWith(<<>>), [hasMessage |-> FALSE, message |-> <<>>],
     ErrorWith(Text("Failed", 6)),
     ErrorWith(<<Word("Failed", 6), Word(" ", 1), Word("ECONNREFUSED", 12)>>),
     ErrorWith(<<Word("WebSocket", 9), Word(" ", 1), Word("Timeout", 7)>>)}
    \cup {ErrorWith(<<Word("failed", 6), Word(" ", 1), Word(ErrorKeywords[k][1], 3)>>) :
             k \in 1..Len(ErrorKeywords)}

\* analyzeMqttError: error.message.toLowerCase() throws a TypeError when the
\* value has no message; else the first keyword found selects the code
analyzeMqttError(error) ==
    IF ~error.hasMessage THEN [threw |-> TRUE, code |-> "", details |-> <<>>]
    ELSE LET lowered == toLowerCase(error.message)
             found == {k \in 1..Len(ErrorKeywords) :
                          messageIncludes(lowered, ErrorKeywords[k][1])}
         IN  IF found # {}
             THEN [threw |-> FALSE,
                   code |-> ErrorKeywords[CHOOSE k \in found : \A j \in found : k <= j][2],
                   details |-> Text("fixed details", 13)]
             ELSE [threw |-> FALSE, code |-> "UNKNOWN_ERROR",
                   details |-> IF Falsy(error.message) THEN Text("no details", 10)
                               ELSE error.message]

\* one analyzeMqttError call
AnalyzeMqttError(error) ==
    /\ Len(pureCalls) < MaxAnalyses
    /\ pureCalls' = Append(pureCalls, [fn |-> "analyzeMqttError", arg |-> error,
                                       result |-> analyzeMqttError(error)])
    /\ UNCHANGED <<ttsText, ttsSanitized, delivered, generatedIds, uuids, now>>
    /\ UNCHANGED <<subVars, brokerVars, cfgVars, msgVars>>

InitErrors ==
    /\ ControlIdle
    /\ ConfigIdle
    /\ MessageIdle
    /\ PureIdle

NextErrors == \E error \in ErrorValues : AnalyzeMqttError(error)

SpecErrors == InitErrors /\ [][NextErrors]_vars

\* the message of the error holds none of the keywords, in any letter case
NoKeyword(error) ==
    \A i \in 1..Len(error.message) :
        error.message[i].w \in {"Failed", "failed", " "}

\* C32: analyzeMqttError never throws, whatever error value it is handed, one
\* without a message included; an error whose message matches no keyword is
\* classified UNKNOWN_ERROR; and the call changes nothing but its result.
C32_AnalyzeNeverThrows ==
    /\ [](\A k \in 1..Len(pureCalls) :
              /\ ~pureCalls[k].result.threw
              /\ NoKeyword(pureCalls[k].arg) => pureCalls[k].result.code = "UNKNOWN_ERROR")
    /\ [][pureCalls' # pureCalls =>
              UNCHANGED <<subVars, brokerVars, cfgVars, msgVars>>]_vars

\* ------------------------------------------- stringifyPayload, parsePayload
MaxPayloadCalls == 2    \* stringifyPayload and parsePayload calls in a run

\* the properties of an MqttMessagePayload in the order generatePayload
\* assigns them
PayloadFields == <<"text", "type", "priority", "emotion", "timestamp", "metadata">>

NoPayload ==
    [text |-> undefinedValue, type |-> undefinedValue, priority |-> undefinedValue,
     emotion |-> undefinedValue, timestamp |-> undefinedValue,
     metadata |-> undefinedValue]

\* a payload value: a string (plain text, or a JSON document with the members
\* of its object) or a structured MqttMessagePayload
StringPayload(kind, raw, members) ==
    [isString |-> TRUE, kind |-> kind, raw |-> raw, members |-> members,
     fields |-> NoPayload]

StructuredPayload(fields) ==
    [isString |-> FALSE, kind |-> "payload", raw |-> <<>>, members |-> <<>>,
     fields |-> fields]

\* the structured payloads generatePayload builds: any text, the empty text
\* included, a type, a priority and at most one optional property
StructuredPayloads ==
    {StructuredPayload(f) :
        f \in {x \in [text : {JString(Text("Hello World", 11)), JString(<<>>),
                             JString(Text(" ", 1))},
                      type : {JString(v) : v \in TypeValues},
                      priority : {JString(v) : v \in PriorityValues},
                      emotion : {undefinedValue, JString(Text("happy", 5))},
                      timestamp : {undefinedValue,
                                   JString(Text("2026-01-01T00:00:00.000Z", 24))},
                      metadata : {undefinedValue, JObject}] :
                  Cardinality({n \in {"emotion", "timestamp", "metadata"} :
                                  x[n] # undefinedValue}) <= 1}}

Member(name, value) == [name |-> name, value |-> value]

\* the string payloads: text that is not JSON, the JSON documents null and 42,
\* and JSON objects that lack text, type or priority
StringPayloads ==
    {StringPayload("text", Text("Hello World", 11), <<>>),
     StringPayload("null", Text("null", 4), <<>>),
     StringPayload("scalar", Text("42", 2), <<>>),
     StringPayload("object", Text("{}", 2), <<>>),
     StringPayload("object", Text("{json}", 22),
                   <<Member("text", JString(Text("Hello World", 11)))>>),
     StringPayload("object", Text("{json}", 37),
                   <<Member("type", JString(Text("speech", 6))),
                     Member("priority", JString(Text("medium", 6)))>>)}

\* JSON.stringify of an object: its members in property order, a property
\* whose value is undefined left out
RECURSIVE membersOf(_, _)
membersOf(fields, k) ==
    IF k > Len(PayloadFields) THEN <<>>
    ELSE LET name == PayloadFields[k]
         IN  IF fields[name] = undefinedValue THEN membersOf(fields, k + 1)
             ELSE <<Member(name, fields[name])>> \o membersOf(fields, k + 1)

\* JSON.parse of an object: a property of every member, undefined elsewhere
parsedObject(members) ==
    [name \in DOMAIN NoPayload |->
        IF \E i \in 1..Len(members) : members[i].name = name
        THEN members[CHOOSE i \in 1..Len(members) : members[i].name = name].value
        ELSE undefinedValue]

\* stringifyPayload
stringifyPayload(payload) ==
    IF payload.isString THEN payload
    ELSE StringPayload("object", Text("{json}", 64), membersOf(payload.fields, 1))

\* parsePayload: JSON.parse throws for text, reading null.text throws, and
\* both are caught
parsePayload(payloadString) ==
    IF payloadString.kind # "object" THEN payloadString
    ELSE LET parsed == parsedObject(payloadString.members)
         IN  IF Truthy(parsed.text) /\ Truthy(parsed.type) /\ Truthy(parsed.priority)
             THEN StructuredPayload(parsed)
             ELSE payloadString

PayloadCall(fn, arg, result) ==
    /\ Len(pureCalls) < MaxPayloadCalls
    /\ pureCalls' = Append(pureCalls, [fn |-> fn, arg |-> arg, result |-> result])
    /\ UNCHANGED <<ttsText, ttsSanitized, delivered, generatedIds, uuids, now>>
    /\ UNCHANGED <<subVars, brokerVars, cfgVars, msgVars>>

\* one stringifyPayload call
StringifyPayload(payload) ==
    PayloadCall("stringifyPayload", payload, stringifyPayload(payload))

\* one parsePayload call, on a string or on what an earlier call returned
ParsePayload(payloadString) ==
    /\ payloadString.isString
    /\ PayloadCall("parsePayload", payloadString, parsePayload(payloadString))

InitPayload ==
    /\ ControlIdle
    /\ ConfigIdle
    /\ MessageIdle
    /\ PureIdle

NextPayload ==
    \/ \E payload \in StructuredPayloads \cup StringPayloads : StringifyPayload(payload)
    \/ \E payloadString \in StringPayloads
                               \cup {pureCalls[k].result : k \in 1..Len(pureCalls)} :
           ParsePayload(payloadString)

SpecPayload == InitPayload /\ [][NextPayload]_vars

\* the JSON object lacks text, type or priority
LacksRequired(payloadString) ==
    \E name \in {"text", "type", "priority"} :
        \A i \in 1..Len(payloadString.members) : payloadString.members[i].name # name

\* C33: parsing the string stringifyPayload made of a structured payload gives
\* that payload back; stringifyPayload returns a string payload unchanged;
\* parsePayload returns its input string when it is not JSON or is a JSON
\* object lacking text, type or priority.
C33_PayloadRoundTrip ==
    \A k \in 1..Len(pureCalls) :
        LET c == pureCalls[k]
        IN  /\ (c.fn = "stringifyPayload" /\ c.arg.isString) => c.result = c.arg
            /\ (c.fn = "parsePayload"
                    /\ (c.arg.kind = "text"
                           \/ (c.arg.kind = "object" /\ LacksRequired(c.arg))))
                   => c.result = c.arg
            /\ (k > 1 /\ c.fn = "parsePayload"
                    /\ pureCalls[k - 1].fn = "stringifyPayload"
                    /\ ~pureCalls[k - 1].arg.isString
                    /\ c.arg = pureCalls[k - 1].result)
                   => c.result = pureCalls[k - 1].arg

\* ------------------------------------------- failed connection attempts
\* the error handler or the 10 s timer of the connect() call that created
\* client t runs resolve(false): the client has not connected yet
ResolvesFalse(t) ==
    /\ brokerTransports[t].state = "opening"
    /\ \/ BrokerErrorEvent(t)
       \/ /\ BrokerConnectTimeout(t)
          /\ ~BrokerConnected(brokerTransports, brokerClient)

\* connect() returns false before it creates a client: the configuration is
\* invalid, or loadMqttClient() gives no client
ReturnsFalseEarly ==
    \/ /\ mqttEnabled' /\ loading' = loading
       /\ ~BrokerConnected(brokerTransports, brokerClient)
       /\ \/ ToggleConnection
          \/ Initialize
    \/ /\ LoadDone
       /\ brokerTransports' = brokerTransports

\* C34: when a connection attempt ends in failure (error event, invalid
\* configuration, client load failure or the 10 s timeout) the status is
\* disconnected as connect() resolves false, and the client object the attempt
\* created is not left live, so that it cannot connect later.
C34_FailedAttemptLeavesNothing ==
    [][/\ ReturnsFalseEarly => mqttConnectionStatus' = "disconnected"
       /\ \A t \in BTIds :
              ResolvesFalse(t) => /\ mqttConnectionStatus' = "disconnected"
                                  /\ ~BrokerLive(t)']_vars

\* ------------------------------------------- disconnect() during connect()
\* the connect() call that created client t completes: resolve(false), or the
\* connect handler, whose resolve(true) follows once the subscribe request has
\* settled, with no assignment to the client or the status in between
ConnectCompletes(t) ==
    \/ ResolvesFalse(t)
    \/ /\ brokerTransports[t].state = "opening"
       /\ BrokerConnectEvent(t)

\* C35: when disconnect() or toggleConnection(false) was called after a
\* connect() had started, at any point of it, and has returned, then as the
\* last connect() completes there is no live client and the status is
\* disconnected.
C35_DisconnectWinsOverConnect ==
    [][\A t \in BTIds :
          (teardownDone /\ loading = 0 /\ ConnectCompletes(t))
             => /\ \A u \in BTIds : ~BrokerLive(u)'
                /\ mqttConnectionStatus' = "disconnected"]_vars

\* ------------------------------------------------- one retry per failure
\* the close event of a transport whose connect() call was already rejected
\* into the catch block by the error event
CloseAfterRejection(t) ==
    /\ transports[t].state = "failed"
    /\ transports[t].cpc = "rejected"
    /\ CloseEvent(t)

\* C36: at most one reconnect timer is pending at any time, and the close
\* event that follows a rejected connect() schedules no second retry and
\* leaves the attempt counter as the rejection set it.
C36_OneRetryPerFailure ==
    /\ [](BagCardinality(timers) <= 1)
    /\ [][\A t \in TIds : CloseAfterRejection(t) =>
              UNCHANGED <<timers, reconnectAttempts>>]_vars

\* ------------------------------------------- interruption by high priority
\* C37: once SpeakQueue.stopAll has been invoked for a high-priority payload,
\* no speakCharacter invocation for a payload dispatched before it follows;
\* the delayed speak of an earlier high-priority payload is one of these.
C37_NoEarlierSpeechAfterStopAll ==
    \A i \in 1..Len(calls) : \A j \in 1..Len(calls) :
        (i < j /\ calls[i].op = "stopAll" /\ calls[j].op = "speak")
            => calls[j].n >= calls[i].n

\* ------------------------------------------------- success means speech
\* C38: handleSpeechPayload resolves with success = true only when exactly one
\* speakCharacter invocation for the payload was made or scheduled; a payload
\* whose text is empty after sanitization is not reported as a success.
C38_SuccessMeansOneSpeech ==
    \A n \in 1..Len(results) :
        (results[n].done /\ results[n].success) => SpeakInvocations(n) = 1

\* --------------------------------------------- status and client together
\* disconnect() returns from its try block
DisconnectCompletes == dpc # "idle" /\ dpc' = "idle"

MaxSubscribers == 2     \* MqttSubscriber objects created in a run

SIds == 1..Len(subscribers)

NewSubscriber(connects) ==
    [state |-> IF connects THEN "opening" ELSE "idle",
     initAwaits |-> connects]   \* initialize() awaits its connect()

\* the link of the subscriber is up or coming up
LiveSubscriber(s) == subscribers[s].state \in {"opening", "open"}

\* the subscribers created so far, with the one a waiting updateConfig() is
\* about to create
SubscribersDue ==
    Len(subscribers)
        + (IF mqttIntegration.pending.op = "updateConfig"
                /\ mqttIntegration.pending.enabled THEN 1 ELSE 0)

\* initialize(config) up to its await of subscriber.connect()
initialize(mi, enabled, reconnectEnabled) ==
    IF ~enabled
    THEN /\ mqttIntegration' = [mi EXCEPT !.enabled = FALSE]
         /\ UNCHANGED subscribers
    ELSE /\ subscribers' = Append(subscribers, NewSubscriber(reconnectEnabled))
         /\ mqttIntegration' =
                [mi EXCEPT !.enabled = TRUE,
                           !.subscriber = Len(subscribers) + 1,
                           !.isInitialized = IF reconnectEnabled THEN @ ELSE TRUE]

\* MqttIntegration.initialize, called by initializeMqttIntegration and by the
\* effect of the MQTT settings component on every change of a setting
IntegrationInitialize(enabled, reconnectEnabled) ==
    /\ enabled => SubscribersDue < MaxSubscribers
    /\ enabled \/ mqttIntegration.enabled
    /\ initialize(mqttIntegration, enabled, reconnectEnabled)
    /\ UNCHANGED <<config, diagnostic, validation, connectAttempt>>
    /\ ControlUnchangedButIntegration

\* MqttIntegration.start: subscriber.connect(), which returns at once when the
\* subscriber has a client
IntegrationStart ==
    /\ mqttIntegration.isInitialized /\ mqttIntegration.enabled
    /\ mqttIntegration.subscriber # 0
    /\ subscribers[mqttIntegration.subscriber].state = "idle"
    /\ subscribers' = [subscribers EXCEPT ![mqttIntegration.subscriber].state = "opening"]
    /\ UNCHANGED <<mqttIntegration, config, diagnostic, validation, connectAttempt>>
    /\ ControlUnchangedButIntegration

\* stop() has something to wait for: the subscriber has a client
StopAwaits(mi) == mi.subscriber # 0 /\ subscribers[mi.subscriber].state # "idle"

\* MqttIntegration.stop up to the await of the end callback
IntegrationStop ==
    /\ StopAwaits(mqttIntegration)
    /\ subscribers[mqttIntegration.subscriber].state # "ending"
    /\ subscribers' = [subscribers EXCEPT ![mqttIntegration.subscriber].state = "ending"]
    /\ UNCHANGED <<mqttIntegration, config, diagnostic, validation, connectAttempt>>
    /\ ControlUnchangedButIntegration

\* the rest of cleanup() after stop()
cleanupRest(mi) ==
    [mi EXCEPT !.subscriber = 0, !.enabled = FALSE, !.isInitialized = FALSE,
               !.pending = NoPending]

\* the rest of updateConfig(newConfig) after stop(): initialize(newConfig),
\* then start() once that has returned
updateConfigRest(mi, subs, enabled, reconnectEnabled) ==
    IF ~enabled
    THEN /\ mqttIntegration' = [mi EXCEPT !.enabled = FALSE, !.pending = NoPending]
         /\ subscribers' = subs
    ELSE /\ subscribers' = Append(subs, NewSubscriber(reconnectEnabled))
         /\ mqttIntegration' =
                [mi EXCEPT !.enabled = TRUE, !.pending = NoPending,
                           !.subscriber = Len(subs) + 1,
                           !.isInitialized = IF reconnectEnabled THEN @ ELSE TRUE]

\* MqttIntegration.updateConfig
IntegrationUpdateConfig(enabled, reconnectEnabled) ==
    /\ mqttIntegration.pending.op = "none"
    /\ enabled => SubscribersDue < MaxSubscribers
    /\ enabled \/ mqttIntegration.enabled
    /\ IF mqttIntegration.isInitialized /\ StopAwaits(mqttIntegration)
       THEN /\ subscribers' =
                  [subscribers EXCEPT ![mqttIntegration.subscriber].state = "ending"]
            /\ mqttIntegration' =
                  [mqttIntegration EXCEPT !.pending =
                      [op |-> "updateConfig", enabled |-> enabled,
                       reconnect |-> reconnectEnabled]]
       ELSE updateConfigRest(mqttIntegration, subscribers, enabled, reconnectEnabled)
    /\ UNCHANGED <<config, diagnostic, validation, connectAttempt>>
    /\ ControlUnchangedButIntegration

\* MqttIntegration.cleanup
IntegrationCleanup ==
    /\ mqttIntegration.pending.op = "none"
    /\ mqttIntegration.subscriber # 0
    /\ IF StopAwaits(mqttIntegration)
       THEN /\ subscribers' =
                  [subscribers EXCEPT ![mqttIntegration.subscriber].state = "ending"]
            /\ mqttIntegration' =
                  [mqttIntegration EXCEPT !.pending.op = "cleanup"]
       ELSE /\ mqttIntegration' = cleanupRest(mqttIntegration)
            /\ UNCHANGED subscribers
    /\ UNCHANGED <<config, diagnostic, validation, connectAttempt>>
    /\ ControlUnchangedButIntegration

\* the end callback of subscriber s: disconnect() clears the client, stop()
\* returns, and a cleanup() or updateConfig() that awaited it goes on
SubscriberEndCallback(s) ==
    /\ subscribers[s].state = "ending"
    /\ LET subs == [subscribers EXCEPT ![s].state = "idle", ![s].initAwaits = FALSE]
           mi == mqttIntegration
       IN  CASE mi.pending.op = "cleanup" ->
                    /\ mqttIntegration' = cleanupRest(mi)
                    /\ subscribers' = subs
             [] mi.pending.op = "updateConfig" ->
                    updateConfigRest(mi, subs, mi.pending.enabled, mi.pending.reconnect)
             [] OTHER ->
                    /\ subscribers' = subs
                    /\ UNCHANGED mqttIntegration
    /\ UNCHANGED <<config, diagnostic, validation, connectAttempt>>
    /\ ControlUnchangedButIntegration

\* connect() of subscriber s resolves: an initialize() that awaited it sets
\* isInitialized
SubscriberConnected(s) ==
    /\ subscribers[s].state = "opening"
    /\ subscribers' = [subscribers EXCEPT ![s].state = "open", ![s].initAwaits = FALSE]
    /\ mqttIntegration' =
           [mqttIntegration EXCEPT !.isInitialized = @ \/ subscribers[s].initAwaits]
    /\ UNCHANGED <<config, diagnostic, validation, connectAttempt>>
    /\ ControlUnchangedButIntegration

\* the link of subscriber s fails or closes: connect() rejects into the
\* initialize() that awaited it, which throws
SubscriberClosed(s) ==
    /\ subscribers[s].state \in {"opening", "open"}
    /\ subscribers' = [subscribers EXCEPT ![s].state = "down", ![s].initAwaits = FALSE]
    /\ UNCHANGED <<mqttIntegration, config, diagnostic, validation, connectAttempt>>
    /\ ControlUnchangedButIntegration

InitIntegration ==
    /\ ControlIdle
    /\ ConfigIdle
    /\ MessageIdle
    /\ PureIdle

NextIntegration ==
    \/ \E enabled \in BOOLEAN, reconnectEnabled \in BOOLEAN :
           IntegrationInitialize(enabled, reconnectEnabled)
    \/ IntegrationStart
    \/ IntegrationStop
    \/ \E enabled \in BOOLEAN, reconnectEnabled \in BOOLEAN :
           IntegrationUpdateConfig(enabled, reconnectEnabled)
    \/ IntegrationCleanup
    \/ \E s \in SIds : SubscriberEndCallback(s)
    \/ \E s \in SIds : SubscriberConnected(s)
    \/ \E s \in SIds : SubscriberClosed(s)

SpecIntegration == InitIntegration /\ [][NextIntegration]_vars

\* C39: for every sequence of initialize, start, stop, updateConfig and
\* cleanup at most one subscriber of the MqttIntegration has a live transport,
\* and it is the subscriber the integration holds: initialize on an instance
\* that already holds a subscriber does not leave the earlier one connected.
C39_OneLiveSubscriber ==
    \A s \in SIds : LiveSubscriber(s) => s = mqttIntegration.subscriber
====
